---- MODULE Spec2Model ----
(***************************************************************************)
(* Model of forest_portal_helper: the concurrent documentation pipeline    *)
(* (core/docgen.py), the model router (llm/router.py), the shared rate     *)
(* limiter (llm/rate_limiter.py) and the manifest store (core/manifest.py).*)
(*                                                                         *)
(* asyncio is cooperative: the code between two suspension points runs     *)
(* without interleaving, so every action below is one such segment.        *)
(*                                                                         *)
(* Time is time.monotonic() in whole seconds, measured from the present    *)
(* instant: "now" is 0 and the passing of one second (Tick) lowers every   *)
(* stored timestamp by one.  A timestamp that lies in the past is kept as  *)
(* "now"; the code only compares timestamps with now or takes their max    *)
(* with values that are at least now.                                      *)
(***************************************************************************)
EXTENDS Integers, Sequences, FiniteSets, TLC

\* ------------------------------------------------------------------------
\* Bounds of the model
\* ------------------------------------------------------------------------
NumFiles == 2
MaxCalls == 4

\* on_rate_limited: "if wait_s <= 0: wait_s = 3.0"
FALLBACK_WAIT == 3

\* time.monotonic(), the origin of the time axis
now == 0

Tasks == 1..NumFiles

Max(a, b) == IF a >= b THEN a ELSE b
Min(a, b) == IF a <= b THEN a ELSE b

VARIABLES
    cfg,            \* the configuration snapshot of the run (AppCfg)
    next_allowed,   \* RateLimiter._next_allowed
    blocked_until,  \* RateLimiter._blocked_until
    pc,             \* position of every task
    wake,           \* deadline of the asyncio.sleep a task is in
    ncalls,         \* limiter clients: wait_for_slot calls started so far
    grants,         \* history: the last return of wait_for_slot
    rl_floor,       \* history: max of (t + wait_s) over on_rate_limited calls
    caught,         \* history: tasks asleep in wait_for_slot when a 429 was observed
    force,          \* generate_docs(force=...)
    reset_output,   \* generate_docs(reset_output=...)
    other,          \* the entries of the output root that are not src/ or INDEX.md
    hist,           \* what the previous run left for every file
    manifest,       \* Manifest._data["files"]
    disk,           \* state directory: manifest.json and manifest.tmp
    out,            \* the output document of every work item
    sem,            \* permits left in the asyncio.Semaphore
    client,         \* the GroqClient of the run: "open" or "closed"
    index,          \* INDEX.md of the output root
    saves,          \* history: executions of Manifest.save in this run
    gi,             \* router.generate calls the file task has started
    parts,          \* router.generate calls of the file task that returned
    partial_docs,   \* process_one: partial_docs, a document named by its chunk's index
    sent,           \* history: the messages of the task's generate calls, in order
    mi,             \* generate: index of the model of the current attempt
    attempt,        \* generate: attempt number on that model
    disabled,       \* ModelRouter._disabled_models
    forced_service_tier,    \* ModelRouter._forced_service_tier
    glog,           \* history: backend calls of the task's current generate call
    last_gen,       \* history: the generate call that ended last
    gstart,         \* history: _disabled_models when the current generate call began
    bcalled,        \* history: files for which a backend request was issued
    eff_tier,       \* generate: eff_params.service_tier of the current attempt
    late_tiers,     \* history: tiers of the requests issued after the tier was forced
    run_pc,         \* position of generate_docs itself
    ck,             \* a call of chunk_text_by_lines: its arguments and its result
    graph,          \* a call of build_import_graph: its arguments and its result
    wk,             \* the work items built from a list of scanned files
    obs             \* the last call of on_success_headers: its headers and its jitter

limiter_vars == <<cfg, next_allowed, blocked_until, pc, wake, ncalls, grants, rl_floor, caught>>
router_vars == <<gi, parts, partial_docs, sent, mi, attempt, disabled, forced_service_tier, glog, last_gen, gstart,
                 bcalled, eff_tier, late_tiers>>
run_vars == <<force, hist, reset_output, other, client, index, saves, manifest, disk, out, sem, run_pc>>
fn_vars == <<ck, graph, wk, obs>>
vars == <<limiter_vars, router_vars, run_vars, fn_vars>>

\* ------------------------------------------------------------------------
\* Response headers.  A header value is absent, an (h)(m)(s) duration, a bare
\* number, or text that is neither.  Missing groups of a duration are -1.
\* ------------------------------------------------------------------------
Absent == [form |-> "absent", h |-> -1, m |-> -1, s |-> -1]
Junk == [form |-> "junk", h |-> -1, m |-> -1, s |-> -1]
Secs(n) == [form |-> "hms", h |-> -1, m |-> -1, s |-> n]
Num(n) == [form |-> "num", h |-> -1, m |-> -1, s |-> n]

NoneVal == [some |-> FALSE, val |-> 0]
Some(v) == [some |-> TRUE, val |-> v]

parse_duration_seconds(v) ==
    IF v.form = "absent" THEN NoneVal
    ELSE IF v.form = "hms"
    THEN LET h == IF v.h >= 0 THEN v.h ELSE 0
             mm == IF v.m >= 0 THEN v.m ELSE 0
             s == IF v.s >= 0 THEN v.s ELSE 0
             total == h * 3600 + mm * 60 + s
         IN IF total > 0 THEN Some(total) ELSE NoneVal
    ELSE IF v.form = "num" THEN Some(v.s)
    ELSE NoneVal

\* int(float(remaining)) if remaining else None, None when it does not parse
parse_remaining(v) ==
    IF v.form = "num" THEN Some(v.s) ELSE NoneVal

Headers(ra, reset, remaining) ==
    [retry_after |-> ra, reset_tokens |-> reset, remaining_tokens |-> remaining]

NoHeaders == Headers(Absent, Absent, Absent)

\* jitter = 0.2 + random() * 0.3 and 0.3 + random() * 0.7, in whole seconds
Jitter == {0, 1}

\* ------------------------------------------------------------------------
\* RateLimiter
\* ------------------------------------------------------------------------

\* the wait is retry-after when that is usable, the reset only without it
rate_limited_wait_retry_after_first(hdrs) ==
    LET ra_s == parse_duration_seconds(hdrs.retry_after)
        reset_s == parse_duration_seconds(hdrs.reset_tokens)
    IN IF ra_s.some /\ ra_s.val > 0 THEN ra_s.val
       ELSE IF reset_s.some /\ reset_s.val > 0 THEN reset_s.val
       ELSE FALLBACK_WAIT

\* wait_s of on_rate_limited
rate_limited_wait(hdrs) ==
    LET ra_s == parse_duration_seconds(hdrs.retry_after)
        reset_s == parse_duration_seconds(hdrs.reset_tokens)
        w0 == 0
        w1 == IF ra_s.some /\ ra_s.val # 0 THEN Max(w0, ra_s.val) ELSE w0
        w2 == IF reset_s.some /\ reset_s.val # 0 THEN Max(w1, reset_s.val) ELSE w1
    IN IF w2 <= 0 THEN FALLBACK_WAIT ELSE w2

\* the block is set to the new target, whatever it was
on_rate_limited_overwrite(bu, hdrs, jitter) ==
    IF ~cfg.enabled THEN bu
    ELSE now + rate_limited_wait(hdrs) + jitter

\* value of _blocked_until after on_rate_limited(hdrs)
on_rate_limited(bu, hdrs, jitter) ==
    IF ~cfg.enabled THEN bu
    ELSE Max(bu, now + rate_limited_wait(hdrs) + jitter)

\* the threshold itself does not count as low
on_success_headers_below(bu, hdrs, jitter) ==
    IF ~cfg.enabled THEN bu
    ELSE LET remaining_i == parse_remaining(hdrs.remaining_tokens)
             reset_s == parse_duration_seconds(hdrs.reset_tokens)
         IN IF remaining_i.some /\ reset_s.some /\ remaining_i.val < cfg.min_remaining_tokens
            THEN Max(bu, now + reset_s.val + jitter)
            ELSE bu

\* value of _blocked_until after on_success_headers(hdrs)
on_success_headers(bu, hdrs, jitter) ==
    IF ~cfg.enabled THEN bu
    ELSE LET remaining_i == parse_remaining(hdrs.remaining_tokens)
             reset_s == parse_duration_seconds(hdrs.reset_tokens)
         IN IF remaining_i.some /\ reset_s.some /\ remaining_i.val <= cfg.min_remaining_tokens
            THEN Max(bu, now + reset_s.val + jitter)
            ELSE bu

\* the target without the block of the rate-limit observations
slot_target_unblocked(bu) == next_allowed

\* the target always lies ahead of the caller
slot_target_ahead(bu) == Max(Max(next_allowed, bu), now + 1)

\* "target = max(self._next_allowed, self._blocked_until)"
slot_target(bu) == Max(next_allowed, bu)

\* wait_for_slot that returns without reserving the next slot
wait_for_slot_unreserved(bu) ==
    IF ~cfg.enabled
    THEN [granted |-> TRUE, next_allowed |-> next_allowed, wake |-> now]
    ELSE LET wait_s == slot_target(bu) - now
         IN IF wait_s <= 0
            THEN [granted |-> TRUE, next_allowed |-> next_allowed, wake |-> now]
            ELSE [granted |-> FALSE, next_allowed |-> next_allowed, wake |-> now + wait_s]

\* wait_for_slot that returns at once, whatever the timestamps
wait_for_slot_at_once(bu) ==
    [granted |-> TRUE,
     next_allowed |-> IF cfg.enabled THEN now + cfg.min_interval_seconds ELSE next_allowed,
     wake |-> now]

\* One pass through the loop of wait_for_slot with _blocked_until = bu: the slot
\* is reserved and the call returns, or the caller sleeps wait_s and repeats.
wait_for_slot(bu) ==
    IF ~cfg.enabled
    THEN [granted |-> TRUE, next_allowed |-> next_allowed, wake |-> now]
    ELSE LET wait_s == slot_target(bu) - now
         IN IF wait_s <= 0
            THEN [granted |-> TRUE, next_allowed |-> now + cfg.min_interval_seconds,
                  wake |-> now]
            ELSE [granted |-> FALSE, next_allowed |-> next_allowed, wake |-> now + wait_s]

\* ------------------------------------------------------------------------
\* Histories of the limiter
\* ------------------------------------------------------------------------

\* the floor a rate-limit observation at this instant asks for: now + wait_s
FloorAfter(hdrs) ==
    IF cfg.enabled THEN Max(rl_floor, now + rate_limited_wait(hdrs)) ELSE rl_floor

\* the return of wait_for_slot to task t: the seconds since the return before
\* it (-1: there was none), the seconds still missing to the floor fl, and
\* whether t was asleep in wait_for_slot when a rate limit was observed
Granted(t, fl, cg) ==
    [n |-> Min(grants.n + 1, 2), gap |-> grants.since, since |-> 0,
     early |-> fl - now, caught |-> t \in cg]

NoGrant == [n |-> 0, gap |-> -1, since |-> -1, early |-> 0, caught |-> FALSE]

\* tasks that are asleep in wait_for_slot with a deadline before the floor fl
CaughtBy(fl) == caught \cup {t \in Tasks : pc[t] = "sleep" /\ wake[t] < fl}

\* ------------------------------------------------------------------------
\* One second passes
\* ------------------------------------------------------------------------
Later(ts) == Max(ts - 1, now)

Tick ==
    /\ next_allowed' = Later(next_allowed)
    /\ blocked_until' = Later(blocked_until)
    /\ wake' = [t \in Tasks |-> Later(wake[t])]
    /\ rl_floor' = Later(rl_floor)
    /\ grants' = IF grants.since < 0 THEN grants
                 ELSE [grants EXCEPT !.since = Min(grants.since + 1, cfg.min_interval_seconds)]
    /\ UNCHANGED <<cfg, pc, ncalls, caught>>
    /\ UNCHANGED <<router_vars, run_vars>>
    /\ UNCHANGED fn_vars

\* ------------------------------------------------------------------------
\* The limiter under concurrent clients: every client repeats
\* wait_for_slot, then one observation.
\* ------------------------------------------------------------------------
RateLimitHeaders ==
    {Headers(ra, rs, Absent) : ra \in {Absent, Secs(1), Num(2)}, rs \in {Junk, Secs(2)}}
SuccessHeaders ==
    {Headers(Absent, rs, rem) : rs \in {Absent, Secs(2)}, rem \in {Junk, Num(0), Num(5)}}

LimiterInit ==
    /\ next_allowed = 0
    /\ blocked_until = 0
    /\ wake = [t \in Tasks |-> 0]
    /\ ncalls = 0
    /\ grants = NoGrant
    /\ rl_floor = 0
    /\ caught = {}

\* the slot check of task t, at its call of wait_for_slot or when its sleep ends
SlotStep(t) ==
    LET w == wait_for_slot(blocked_until)
    IN /\ pc' = [pc EXCEPT ![t] = IF w.granted THEN "call" ELSE "sleep"]
       /\ wake' = [wake EXCEPT ![t] = w.wake]
       /\ next_allowed' = w.next_allowed
       /\ grants' = IF w.granted THEN Granted(t, rl_floor, caught) ELSE grants
       /\ caught' = IF w.granted THEN caught \ {t} ELSE caught

LAcquire(t) ==
    /\ pc[t] = "idle"
    /\ ncalls < MaxCalls
    /\ ncalls' = ncalls + 1
    /\ SlotStep(t)
    /\ UNCHANGED <<cfg, blocked_until, rl_floor>>
    /\ UNCHANGED <<router_vars, run_vars>>
    /\ UNCHANGED fn_vars

LWake(t) ==
    /\ pc[t] = "sleep"
    /\ now >= wake[t]
    /\ SlotStep(t)
    /\ UNCHANGED <<cfg, blocked_until, ncalls, rl_floor>>
    /\ UNCHANGED <<router_vars, run_vars>>
    /\ UNCHANGED fn_vars

LSuccess(t) ==
    /\ pc[t] = "call"
    /\ \E hdrs \in SuccessHeaders, j \in Jitter :
          blocked_until' = on_success_headers(blocked_until, hdrs, j)
    /\ pc' = [pc EXCEPT ![t] = "idle"]
    /\ UNCHANGED <<cfg, next_allowed, wake, ncalls, grants, rl_floor, caught>>
    /\ UNCHANGED <<router_vars, run_vars>>
    /\ UNCHANGED fn_vars

LRateLimited(t) ==
    /\ pc[t] = "call"
    /\ \E hdrs \in RateLimitHeaders, j \in Jitter :
          /\ blocked_until' = on_rate_limited(blocked_until, hdrs, j)
          /\ rl_floor' = FloorAfter(hdrs)
          /\ caught' = CaughtBy(FloorAfter(hdrs))
    /\ pc' = [pc EXCEPT ![t] = "idle"]
    /\ UNCHANGED <<cfg, next_allowed, wake, ncalls, grants>>
    /\ UNCHANGED <<router_vars, run_vars>>
    /\ UNCHANGED fn_vars

LimiterNext ==
    \/ Tick
    \/ \E t \in Tasks : LAcquire(t)
    \/ \E t \in Tasks : LWake(t)
    \/ \E t \in Tasks : LSuccess(t)
    \/ \E t \in Tasks : LRateLimited(t)

\* ------------------------------------------------------------------------
\* Texts.  A text is the sequence of its lines (terminators included); a line
\* is named by a token.  Lines that are a secret are the tokens of Secrets.
\* ------------------------------------------------------------------------
Secrets == {"gsk_1", "gsk_2"}
REDACTED == "<REDACTED_SECRET>"

LineLen(line) == IF line = "s" THEN 1 ELSE IF line = "L" THEN 5 ELSE 2

RECURSIVE TextLen(_)
TextLen(text) == IF text = <<>> THEN 0 ELSE LineLen(Head(text)) + TextLen(Tail(text))

redact_secrets(text) ==
    [i \in 1..Len(text) |-> IF text[i] \in Secrets THEN REDACTED ELSE text[i]]

\* hex SHA-256 of the text: a digest that distinguishes distinct texts
sha256_text(text) == <<"sha256", text>>

\* the loop, without the flush of the last partial chunk
RECURSIVE chunk_lines_no_terminal(_, _, _, _, _, _)
chunk_lines_no_terminal(lines, i, cur, chunks, max_chars, overlap_lines) ==
    IF i > Len(lines)
    THEN chunks
    ELSE LET line == lines[i]
             full == cur # <<>> /\ TextLen(cur) + LineLen(line) > max_chars
             tail == IF overlap_lines > 0
                     THEN IF Len(cur) >= overlap_lines
                          THEN SubSeq(cur, Len(cur) - overlap_lines + 1, Len(cur))
                          ELSE cur
                     ELSE <<>>
             cur1 == IF full THEN tail ELSE cur
             chunks1 == IF full THEN Append(chunks, cur) ELSE chunks
         IN chunk_lines_no_terminal(lines, i + 1, Append(cur1, line), chunks1, max_chars, overlap_lines)

\* the loop, carrying the whole flushed chunk over as the overlap
RECURSIVE chunk_lines_whole_tail(_, _, _, _, _, _)
chunk_lines_whole_tail(lines, i, cur, chunks, max_chars, overlap_lines) ==
    IF i > Len(lines)
    THEN IF cur # <<>> THEN Append(chunks, cur) ELSE chunks
    ELSE LET line == lines[i]
             full == cur # <<>> /\ TextLen(cur) + LineLen(line) > max_chars
             tail == IF overlap_lines > 0 THEN cur ELSE <<>>
             cur1 == IF full THEN tail ELSE cur
             chunks1 == IF full THEN Append(chunks, cur) ELSE chunks
         IN chunk_lines_whole_tail(lines, i + 1, Append(cur1, line), chunks1, max_chars, overlap_lines)

\* the loop over lines of chunk_text_by_lines, from line i on
RECURSIVE chunk_lines(_, _, _, _, _, _)
chunk_lines(lines, i, cur, chunks, max_chars, overlap_lines) ==
    IF i > Len(lines)
    THEN IF cur # <<>> THEN Append(chunks, cur) ELSE chunks
    ELSE LET line == lines[i]
             full == cur # <<>> /\ TextLen(cur) + LineLen(line) > max_chars
             tail == IF overlap_lines > 0
                     THEN IF Len(cur) >= overlap_lines
                          THEN SubSeq(cur, Len(cur) - overlap_lines + 1, Len(cur))
                          ELSE cur
                     ELSE <<>>
             cur1 == IF full THEN tail ELSE cur
             chunks1 == IF full THEN Append(chunks, cur) ELSE chunks
         IN chunk_lines(lines, i + 1, Append(cur1, line), chunks1, max_chars, overlap_lines)

chunk_text_by_lines(text, max_chars, overlap_lines) ==
    IF TextLen(text) <= max_chars
    THEN <<text>>
    ELSE chunk_lines(text, 1, <<>>, <<>>, max_chars, overlap_lines)

\* ------------------------------------------------------------------------
\* Manifest store
\* ------------------------------------------------------------------------
NoEntry == [has |-> FALSE, sha256 |-> <<>>, model |-> "", updated_at |-> ""]
ManifestEntry(sha, model, at) == [has |-> TRUE, sha256 |-> sha, model |-> model, updated_at |-> at]
EmptyFiles == [k \in Tasks |-> NoEntry]

\* Manifest.get_sha: None (here <<"None">>) when the key has no entry
get_sha(files, rel_path) ==
    IF files[rel_path].has THEN files[rel_path].sha256 ELSE <<"None">>

\* the new entry replaces the mapping
set_entry_alone(files, rel_path, entry) == [EmptyFiles EXCEPT ![rel_path] = entry]

\* Manifest.set_entry
set_entry(files, rel_path, entry) == [files EXCEPT ![rel_path] = entry]

\* a file of the state directory: missing, opened for writing and not yet
\* complete, or complete with its content
Missing == [state |-> "missing", files |-> EmptyFiles]
Partial == [state |-> "partial", files |-> EmptyFiles]
Complete(files) == [state |-> "complete", files |-> files]

\* the data is written to the manifest itself
tmp_path_in_place(path) == path

\* Manifest.save: tmp = self.path.with_suffix(".tmp")
tmp_path(path) == "tmp"

\* Path.write_text, first the open that truncates, then the data
write_text_open(d, path) == [d EXCEPT ![path] = Partial]
write_text_data(d, path, files) == [d EXCEPT ![path] = Complete(files)]

\* Path.replace: an atomic rename over the target
replace(d, src, dst) ==
    IF src = dst THEN d ELSE [d EXCEPT ![dst] = d[src], ![src] = Missing]

\* Manifest.load: the content of manifest.json if it exists
load(d) == IF d.json.state = "missing" THEN EmptyFiles ELSE d.json.files

\* ------------------------------------------------------------------------
\* The source tree and what the previous run left behind
\* ------------------------------------------------------------------------
content(f) ==
    IF f = 1 THEN <<"a", "b">>
    ELSE IF f = 2 THEN <<"gsk_1">>
    ELSE <<"c">>

\* the same text with every secret replaced by another secret
OtherSecret(text) ==
    [i \in 1..Len(text) |-> IF text[i] = "gsk_1" THEN "gsk_2"
                            ELSE IF text[i] = "gsk_2" THEN "gsk_1" ELSE text[i]]

Histories(f) ==
    IF f = 1 THEN {"fresh", "cached", "edited", "doc_missing"}
    ELSE IF f = 2 THEN {"cached", "edited", "secret_edited"}
    ELSE {"cached", "edited"}

\* the text of file f when the previous run documented it
PrevText(f, h) ==
    IF h = "edited" THEN <<"z">>
    ELSE IF h = "secret_edited" THEN OtherSecret(content(f))
    ELSE content(f)

PrevFiles(hs) ==
    [f \in Tasks |-> IF hs[f] = "fresh" THEN NoEntry
                     ELSE ManifestEntry(sha256_text(redact_secrets(PrevText(f, hs[f]))), "A", "old")]

PrevDisk(hs) ==
    [json |-> IF \A f \in Tasks : hs[f] = "fresh" THEN Missing ELSE Complete(PrevFiles(hs)),
     tmp |-> Missing]

PrevOut(hs) ==
    [f \in Tasks |-> IF hs[f] \in {"fresh", "doc_missing"} THEN "missing" ELSE "old"]

\* INDEX.md is written by a run that completes
PrevIndex(hs) == IF \A f \in Tasks : hs[f] = "fresh" THEN <<>> ELSE <<"old">>

\* the bytes of file f differ from the ones the previous run read
Modified(f) == PrevText(f, hist[f]) # content(f)

\* ------------------------------------------------------------------------
\* Work items.  A path is the sequence of its components; a relative source
\* path is [parent, stem, ext], parent the sequence of its directories.
\* ------------------------------------------------------------------------
File(par, stem, ext) == [parent |-> par, stem |-> stem, ext |-> ext]

\* the components joined by "/"
RECURSIVE join(_)
join(path) == IF Len(path) = 1 THEN path[1] ELSE path[1] \o "/" \o join(Tail(path))

\* Path.as_posix
as_posix(p) == join(p.parent \o <<p.stem \o p.ext>>)

\* Path.relative_to
relative_to(path, root) == SubSeq(path, Len(root) + 1, Len(path))

output_root == <<"out">>

\* <<"ValueError">> stands for the exception
doc_path_for(rel_src_path, root, layout) ==
    IF layout = "stem_folder"
    THEN root \o <<"src">> \o rel_src_path.parent \o <<rel_src_path.stem, rel_src_path.stem \o ".md">>
    ELSE IF layout = "flat"
    THEN root \o <<"src">> \o rel_src_path.parent \o <<rel_src_path.stem \o ".md">>
    ELSE <<"ValueError">>

WorkItem(f, layout) ==
    [src |-> f, out_path |-> doc_path_for(f, output_root, layout), rel_key |-> as_posix(f)]

\* what a scan can yield: files of the included extensions, no path twice
ScannedFiles ==
    {File(par, stem, ext) : par \in {<<>>, <<"lib">>}, stem \in {"a", "b"}, ext \in {".ts", ".css"}}

\* the relative paths in the order of str.__lt__
PosixOrder == <<"a.css", "a.ts", "b.css", "b.ts", "lib/a.css", "lib/a.ts", "lib/b.css", "lib/b.ts">>
key_rank(k) == CHOOSE i \in 1..Len(PosixOrder) : PosixOrder[i] = k

\* the item put into a list that is sorted by rel_key, after the items that
\* do not come after it
RECURSIVE insert(_, _)
insert(w, ws) ==
    IF ws = <<>> THEN <<w>>
    ELSE IF key_rank(w.rel_key) < key_rank(Head(ws).rel_key) THEN <<w>> \o ws
    ELSE <<Head(ws)>> \o insert(w, Tail(ws))

\* the list is left in the order of the scan
sorted_as_scanned(work) == work

\* sorted(work, key=lambda x: x.rel_key)
RECURSIVE sorted(_)
sorted(work) ==
    IF work = <<>> THEN <<>>
    ELSE insert(work[Len(work)], sorted(SubSeq(work, 1, Len(work) - 1)))

\* "- {w.rel_key} -> [{doc_rel}]({doc_rel})"
bullet(w) ==
    LET doc_rel == join(relative_to(w.out_path, output_root))
    IN "- " \o w.rel_key \o " -> [" \o doc_rel \o "](" \o doc_rel \o ")"

\* the lines _write_index writes to INDEX.md
write_index(work) ==
    <<"# Indice de documentacao", "Gerado automaticamente pelo forest-portal-helper.">>
        \o [i \in 1..Len(work) |-> bullet(sorted(work)[i])]

\* the scanned files of the run, in the order of the scan
rel_path(f) ==
    IF f = 1 THEN File(<<>>, "b", ".ts")
    ELSE IF f = 2 THEN File(<<>>, "a", ".ts")
    ELSE File(<<"lib">>, "a", ".ts")

\* _filter_files and the scan: the files of the run, in scan order, without
\* the ones outside only_rel_paths and the ones that are gone from the tree
files_of_run == SelectSeq([f \in Tasks |-> f], LAMBDA f : pc[f] # "no_item")

\* the list "work" of generate_docs
work_of_run ==
    [i \in 1..Len(files_of_run) |-> WorkItem(rel_path(files_of_run[i]), cfg.output_layout)]

\* ------------------------------------------------------------------------
\* ModelRouter.generate and generate_docs.process_one
\* ------------------------------------------------------------------------
\* the chunks of the text as it was read
Chunks_raw(f) == chunk_text_by_lines(content(f), cfg.max_chars_per_request,
                                     cfg.chunk_overlap_lines)

Chunks(f) == chunk_text_by_lines(redact_secrets(content(f)), cfg.max_chars_per_request,
                                 cfg.chunk_overlap_lines)

\* the document is final after the first chunk
RouterCalls_first_chunk(f) == Min(1, Len(Chunks(f)))

\* the merge call is made for a single chunk too
RouterCalls_always_merge(f) == Len(Chunks(f)) + 1

\* router calls of a regenerated file: one per chunk, and the merge call
RouterCalls(f) == IF Len(Chunks(f)) > 1 THEN Len(Chunks(f)) + 1 ELSE Len(Chunks(f))

\* the messages of the g-th generate call of file f: the prompt of chunk g, or
\* the merge prompt with the partial documents docs joined in their order
messages(f, g, docs) ==
    IF g <= Len(Chunks(f))
    THEN [kind |-> "chunk", i |-> g, code |-> Chunks(f)[g], docs |-> <<>>]
    ELSE [kind |-> "merge", i |-> 0, code |-> <<>>, docs |-> docs]

\* partial_docs after the g-th generate call of task t returned:
\* "partial_docs.append(doc_txt.strip())" in the chunk loop
appended(t) ==
    IF gi[t] <= Len(Chunks(t)) THEN Append(partial_docs[t], gi[t]) ELSE partial_docs[t]

\* the loop over the models without the test of _disabled_models
NextModel_any(i, dis) == IF i <= Len(cfg.models) THEN i ELSE 0

\* "for model in models: if model in self._disabled_models: continue", from
\* position i on: the index of the next model that is tried, 0 if none is left
NextModel(i, dis) ==
    LET open == {j \in i..Len(cfg.models) : cfg.models[j] \notin dis}
    IN IF open = {} THEN 0 ELSE CHOOSE j \in open : \A k \in open : j <= k

\* ModelRouter._jitter_backoff, r the random factor in tenths
BackoffFactors == {7, 12}
jitter_backoff(a, r) == (Min(cfg.backoff_base_s * 2 ^ (a - 1), cfg.backoff_max_s) * r) \div 10

\* GroqClient.chat_raw(model, messages, params): the response headers that come
\* with the text of a completion, and the ones that come with a 429
chat_raw_headers == {NoHeaders, Headers(Absent, Secs(1), Num(0))}
chat_raw_429_headers == {NoHeaders, Headers(Secs(1), Absent, Absent)}

\* The current generate call.  History: the number of backend responses, the
\* status of the first one when it was a structural error, the last response
\* and the model and attempt it answered.  State: last_err, "None" until an
\* except branch assigns it.
NoLog == [calls |-> 0, first |-> "", last |-> "", last_err |-> "None", model |-> 0, att |-> 0]

\* last_err keeps the first error of the call
Logged_first_err(t, outcome) ==
    [calls |-> glog[t].calls + 1,
     first |-> IF glog[t].calls > 0 THEN glog[t].first
               ELSE IF outcome \in {"400", "404", "422"} THEN outcome ELSE "-",
     last |-> outcome,
     last_err |-> IF outcome = "ok" \/ glog[t].last_err # "None" THEN glog[t].last_err
                  ELSE outcome,
     model |-> mi[t], att |-> attempt[t]]

\* the log after the response outcome to task t: every except branch sets
\* "last_err = e"
Logged(t, outcome) ==
    [calls |-> glog[t].calls + 1,
     first |-> IF glog[t].calls > 0 THEN glog[t].first
               ELSE IF outcome \in {"400", "404", "422"} THEN outcome ELSE "-",
     last |-> outcome,
     last_err |-> IF outcome = "ok" THEN glog[t].last_err ELSE outcome,
     model |-> mi[t], att |-> attempt[t]]

\* the generate call has ended: it returned model j, or (j = 0) it raised
\* RuntimeError("... Ultimo erro: {last_err}")
Ended(log, j, a) ==
    [calls |-> log.calls, first |-> log.first, result |-> j, attempt |-> a,
     last |-> log.last, last_err |-> IF j = 0 THEN log.last_err ELSE "None",
     model |-> log.model, att |-> log.att]

\* str.strip().lower() on the tier names of the configurations
strip_lower(str) == IF str = " On_Demand " THEN "on_demand" ELSE str

\* params.service_tier as generate_docs builds it, "" for None:
\* "if service_tier.lower() in {"", "on_demand"}: service_tier_val = None"
service_tier_val(tier) == IF strip_lower(tier) \in {"", "on_demand"} THEN "" ELSE tier

\* the service_tier entry of the request's kwargs:
\* "if params.service_tier: kwargs["service_tier"] = params.service_tier"
kwargs_service_tier(tier) == IF tier # "" THEN tier ELSE "omitted"

TaskRunning == run_pc \in {"gather", "closing_err"}

\* "eff_params = self.params; if self._forced_service_tier: eff_params =
\* replace(eff_params, service_tier=self._forced_service_tier)": the tier of
\* eff_params, "" when the request omits it
eff_params(forced) == IF forced # "" THEN forced ELSE service_tier_val(cfg.service_tier)

\* generate goes on with attempt a on model j (j = 0: no model is left and
\* generate raises, which ends process_one and releases the semaphore).  An
\* attempt starts with wait_for_slot and, once the slot is granted, the request.
RouterStep(t, j, a, bu, fl, cg, s, log, gs, lg, tier) ==
    IF j = 0
    THEN /\ pc' = [pc EXCEPT ![t] = "failed"]
         /\ eff_tier' = [eff_tier EXCEPT ![t] = ""]
         /\ late_tiers' = late_tiers
         /\ wake' = [wake EXCEPT ![t] = 0]
         /\ mi' = [mi EXCEPT ![t] = 0]
         /\ attempt' = [attempt EXCEPT ![t] = 0]
         /\ next_allowed' = next_allowed
         /\ grants' = grants
         /\ caught' = cg
         /\ sem' = s + 1
         /\ glog' = [glog EXCEPT ![t] = NoLog]
         /\ last_gen' = Ended(log, 0, 0)
         /\ gstart' = [gstart EXCEPT ![t] = {}]
         /\ bcalled' = bcalled
    ELSE LET w == wait_for_slot(bu)
         IN /\ pc' = [pc EXCEPT ![t] = IF w.granted THEN "call" ELSE "sleep"]
            /\ wake' = [wake EXCEPT ![t] = w.wake]
            /\ mi' = [mi EXCEPT ![t] = j]
            /\ attempt' = [attempt EXCEPT ![t] = a]
            /\ next_allowed' = w.next_allowed
            /\ grants' = IF w.granted THEN Granted(t, fl, cg) ELSE grants
            /\ caught' = IF w.granted THEN cg \ {t} ELSE cg
            /\ sem' = s
            /\ glog' = [glog EXCEPT ![t] = log]
            /\ last_gen' = lg
            /\ gstart' = [gstart EXCEPT ![t] = gs]
            /\ bcalled' = IF w.granted THEN bcalled \cup {t} ELSE bcalled
            /\ eff_tier' = [eff_tier EXCEPT ![t] = tier]
            /\ late_tiers' = IF w.granted /\ forced_service_tier # ""
                              THEN late_tiers \cup {tier} ELSE late_tiers

\* a new call of generate: the loop over the models starts at the first one
GenerateStart(t, dis, bu, s, lg) ==
    RouterStep(t, NextModel(1, dis), 1, bu, rl_floor, caught, s, NoLog, dis, lg,
               eff_params(forced_service_tier))

\* "continue" that repeats the attempt without counting it
Continue_uncounted(t, dis, bu, fl, cg, log) ==
    RouterStep(t, mi[t], attempt[t], bu, fl, cg, sem, log, gstart[t], last_gen,
               eff_params(forced_service_tier))

\* "continue" that leaves the model
Continue_next_model(t, dis, bu, fl, cg, log) ==
    RouterStep(t, NextModel(mi[t] + 1, dis), 1, bu, fl, cg, sem, log, gstart[t], last_gen,
               eff_params(forced_service_tier))

\* "continue": the next attempt on the same model, the next model when the
\* attempts are used up
Continue(t, dis, bu, fl, cg, log) ==
    IF attempt[t] < cfg.max_attempts_per_model
    THEN RouterStep(t, mi[t], attempt[t] + 1, bu, fl, cg, sem, log, gstart[t], last_gen,
                    eff_params(forced_service_tier))
    ELSE RouterStep(t, NextModel(mi[t] + 1, dis), 1, bu, fl, cg, sem, log, gstart[t], last_gen,
                    eff_params(forced_service_tier))

\* the structural error goes on like a retry
Break_as_continue(t, dis, log) ==
    Continue(t, dis, blocked_until, rl_floor, caught, log)

\* "break": the next model
Break(t, dis, log) ==
    RouterStep(t, NextModel(mi[t] + 1, dis), 1, blocked_until, rl_floor, caught, sem, log,
               gstart[t], last_gen, eff_params(forced_service_tier))

\* the task enters whether or not a permit is left
sem_free_always(s) == TRUE

\* the task enters only when a permit would still be left after it
sem_free_spare(s) == s > 1

\* "async with sem": the task enters when a permit is left
sem_free(s) == s > 0

\* the cache test against the hash of the text before redaction
cache_hit_unredacted(f) ==
    /\ ~force
    /\ get_sha(manifest, f) = sha256_text(content(f))
    /\ out[f] # "missing"

\* the cache test without the comparison of the hashes
cache_hit_any_hash(f) ==
    /\ ~force
    /\ manifest[f].has
    /\ out[f] # "missing"

\* the cache test without the force flag
cache_hit_forced(f) ==
    /\ get_sha(manifest, f) = sha256_text(redact_secrets(content(f)))
    /\ out[f] # "missing"

\* the cache test without the test of the output file
cache_hit_hash_only(f) ==
    /\ ~force
    /\ get_sha(manifest, f) = sha256_text(redact_secrets(content(f)))

\* the cache test of process_one
cache_hit(f) ==
    /\ ~force
    /\ get_sha(manifest, f) = sha256_text(redact_secrets(content(f)))
    /\ out[f] # "missing"

\* A file task enters the semaphore, reads, redacts and hashes its file, and
\* returns at once on a cache hit; otherwise it chunks the text and calls
\* generate for the first chunk.
Start(t) ==
    /\ TaskRunning
    /\ pc[t] = "queued"
    /\ sem_free(sem)
    /\ IF cache_hit(t)
       THEN /\ pc' = [pc EXCEPT ![t] = "skipped"]
            /\ UNCHANGED <<wake, mi, attempt, next_allowed, grants, caught, sem, glog,
                           last_gen, gstart, bcalled, gi, sent, eff_tier, late_tiers>>
       ELSE /\ gi' = [gi EXCEPT ![t] = 1]
            /\ sent' = [sent EXCEPT ![t] = <<messages(t, 1, <<>>)>>]
            /\ GenerateStart(t, disabled, blocked_until, sem - 1, last_gen)
    /\ UNCHANGED <<cfg, blocked_until, rl_floor, ncalls>>
    /\ UNCHANGED <<parts, partial_docs, disabled, forced_service_tier, force, hist, reset_output, other, client, index, saves, manifest, disk,
                   out, run_pc>>
    /\ UNCHANGED fn_vars

\* the sleep inside wait_for_slot ends and the slot is checked again
WakeSlot(t) ==
    /\ TaskRunning
    /\ pc[t] = "sleep"
    /\ now >= wake[t]
    /\ RouterStep(t, mi[t], attempt[t], blocked_until, rl_floor, caught, sem, glog[t],
                  gstart[t], last_gen, eff_tier[t])
    /\ UNCHANGED <<cfg, blocked_until, rl_floor, ncalls>>
    /\ UNCHANGED <<gi, parts, partial_docs, sent, disabled, forced_service_tier, force, hist, reset_output, other, client, index, saves,
                   manifest, disk, out, run_pc>>
    /\ UNCHANGED fn_vars

\* The request succeeds: the headers go to the limiter and generate returns
\* (text, model).  process_one goes on with the next chunk or the merge call;
\* after the last call it writes the document and sets the manifest entry.
RespOk(t) ==
    /\ TaskRunning
    /\ pc[t] = "call"
    /\ \E hdrs \in chat_raw_headers, j \in Jitter :
         LET bu == on_success_headers(blocked_until, hdrs, j)
             lg == Ended(Logged(t, "ok"), mi[t], attempt[t])
         IN /\ blocked_until' = bu
            /\ parts' = [parts EXCEPT ![t] = parts[t] + 1]
            /\ partial_docs' = [partial_docs EXCEPT ![t] = appended(t)]
            /\ IF gi[t] < RouterCalls(t)
               THEN /\ gi' = [gi EXCEPT ![t] = gi[t] + 1]
                    /\ sent' = [sent EXCEPT ![t] = Append(@, messages(t, gi[t] + 1, appended(t)))]
                    /\ GenerateStart(t, disabled, bu, sem, lg)
                    /\ UNCHANGED <<out, manifest>>
               ELSE /\ out' = [out EXCEPT ![t] = "new"]
                    /\ manifest' = set_entry(manifest, t,
                           ManifestEntry(sha256_text(redact_secrets(content(t))),
                                         cfg.models[mi[t]], "new"))
                    /\ pc' = [pc EXCEPT ![t] = "done"]
                    /\ sem' = sem + 1
                    /\ glog' = [glog EXCEPT ![t] = NoLog]
                    /\ last_gen' = lg
                    /\ gstart' = [gstart EXCEPT ![t] = {}]
                    /\ eff_tier' = [eff_tier EXCEPT ![t] = ""]
                    /\ UNCHANGED <<wake, mi, attempt, next_allowed, grants, caught, bcalled, gi,
                                   sent, late_tiers>>
    /\ UNCHANGED <<cfg, rl_floor, ncalls>>
    /\ UNCHANGED <<disabled, forced_service_tier, force, hist, reset_output, other, client, index, saves, disk,
                   run_pc>>
    /\ UNCHANGED fn_vars

\* RateLimitError, or APIStatusError with status 429
RespRateLimited(t) ==
    /\ TaskRunning
    /\ pc[t] = "call"
    /\ \E hdrs \in chat_raw_429_headers, j \in Jitter :
         /\ blocked_until' = on_rate_limited(blocked_until, hdrs, j)
         /\ rl_floor' = FloorAfter(hdrs)
         /\ Continue(t, disabled, on_rate_limited(blocked_until, hdrs, j), FloorAfter(hdrs),
                     CaughtBy(FloorAfter(hdrs)), Logged(t, "429"))
    /\ UNCHANGED <<cfg, ncalls>>
    /\ UNCHANGED <<gi, parts, partial_docs, sent, disabled, forced_service_tier, force, hist, reset_output, other, client, index, saves,
                   manifest, disk, out, run_pc>>
    /\ UNCHANGED fn_vars

\* status 400 "service_tier ... not available for this org", or status 498
\* capacity_exceeded: force on_demand, sleep 0.2 s, then "continue"
RespTierRejected(t) ==
    /\ TaskRunning
    /\ pc[t] = "call"
    /\ \E o \in {"400 service_tier", "498 capacity_exceeded"} :
          glog' = [glog EXCEPT ![t] = Logged(t, o)]
    /\ forced_service_tier' = "on_demand"
    /\ pc' = [pc EXCEPT ![t] = "retry_sleep"]
    /\ wake' = [wake EXCEPT ![t] = now]
    /\ UNCHANGED <<cfg, next_allowed, blocked_until, ncalls,
                   grants, rl_floor, caught>>
    /\ UNCHANGED <<gi, parts, partial_docs, sent, mi, attempt, disabled, last_gen, gstart, bcalled, eff_tier,
                   late_tiers>>
    /\ UNCHANGED run_vars
    /\ UNCHANGED fn_vars

\* status >= 500: sleep the jittered backoff, then "continue"
RespServerError(t) ==
    /\ TaskRunning
    /\ pc[t] = "call"
    /\ glog' = [glog EXCEPT ![t] = Logged(t, "5xx")]
    /\ pc' = [pc EXCEPT ![t] = "retry_sleep"]
    /\ \E r \in BackoffFactors :
          wake' = [wake EXCEPT ![t] = now + jitter_backoff(attempt[t], r)]
    /\ UNCHANGED <<cfg, next_allowed, blocked_until, ncalls,
                   grants, rl_floor, caught>>
    /\ UNCHANGED <<gi, parts, partial_docs, sent, mi, attempt, disabled, forced_service_tier, last_gen, gstart,
                   bcalled, eff_tier, late_tiers>>
    /\ UNCHANGED run_vars
    /\ UNCHANGED fn_vars

\* the sleep before a retry ends: "continue"
WakeRetry(t) ==
    /\ TaskRunning
    /\ pc[t] = "retry_sleep"
    /\ now >= wake[t]
    /\ Continue(t, disabled, blocked_until, rl_floor, caught, glog[t])
    /\ UNCHANGED <<cfg, blocked_until, rl_floor, ncalls>>
    /\ UNCHANGED <<gi, parts, partial_docs, sent, disabled, forced_service_tier, force, hist, reset_output, other, client, index, saves,
                   manifest, disk, out, run_pc>>
    /\ UNCHANGED fn_vars

\* the structural error leaves the set as it is
disable_nothing(dis, model) == dis

\* the set the structural error leaves in _disabled_models
disable(dis, model) == dis \cup {model}

\* status 400, 404 or 422: the model is disabled, "break"
RespStructural(t) ==
    /\ TaskRunning
    /\ pc[t] = "call"
    /\ disabled' = disable(disabled, cfg.models[mi[t]])
    /\ \E o \in {"400", "404", "422"} :
          Break(t, disable(disabled, cfg.models[mi[t]]), Logged(t, o))
    /\ UNCHANGED <<cfg, blocked_until, rl_floor, ncalls>>
    /\ UNCHANGED <<gi, parts, partial_docs, sent, forced_service_tier, force, hist, reset_output, other, client, index, saves, manifest,
                   disk, out, run_pc>>
    /\ UNCHANGED fn_vars

\* any other status, or any other exception: "break"
RespOther(t) ==
    /\ TaskRunning
    /\ pc[t] = "call"
    /\ \E o \in {"401", "exception"} : Break(t, disabled, Logged(t, o))
    /\ UNCHANGED <<cfg, blocked_until, rl_floor, ncalls>>
    /\ UNCHANGED <<gi, parts, partial_docs, sent, disabled, forced_service_tier, force, hist, reset_output, other, client, index, saves,
                   manifest, disk, out, run_pc>>
    /\ UNCHANGED fn_vars

\* ------------------------------------------------------------------------
\* generate_docs after the fan-out: fan-in, Manifest.save, close
\* ------------------------------------------------------------------------

\* the output root and the state directory
Dirs(o, ix, d, oth) == [out |-> o, index |-> ix, disk |-> d, other |-> oth]

\* the whole output root is removed
_maybe_reset_whole_root(fs, reset) ==
    IF ~reset THEN fs
    ELSE Dirs([f \in Tasks |-> "missing"], <<>>, [json |-> Missing, tmp |-> Missing], "missing")

\* _maybe_reset: rmtree of output_root/src, unlink of output_root/INDEX.md,
\* rmtree of the state directory, which is then made anew
_maybe_reset(fs, reset) ==
    IF ~reset THEN fs
    ELSE Dirs([f \in Tasks |-> "missing"], <<>>, [json |-> Missing, tmp |-> Missing], fs.other)

\* generate_docs up to its first await: _maybe_reset, then Manifest(path)
\* and manifest.load()
Setup ==
    /\ run_pc = "setup"
    /\ LET fs == _maybe_reset(Dirs(out, index, disk, other), reset_output)
       IN /\ out' = fs.out
          /\ index' = fs.index
          /\ disk' = fs.disk
          /\ other' = fs.other
          /\ manifest' = load(fs.disk)
    /\ run_pc' = "validate"
    /\ UNCHANGED <<limiter_vars, router_vars, force, hist, reset_output, client, saves, sem>>
    /\ UNCHANGED fn_vars

\* "if cfg.llm.routing.validate_with_models_endpoint: models = await
\* router.validate_models()": the models endpoint fails, or none of the
\* preferred models is available, or the preferred models are kept.  An
\* exception leaves generate_docs from outside its try statement.
ValidateModels ==
    /\ run_pc = "validate"
    /\ \E answer \in {"error", "none", "all"} :
          run_pc' = IF cfg.validate_with_models_endpoint /\ answer # "all"
                    THEN "raised" ELSE "work_items"
    /\ UNCHANGED <<limiter_vars, router_vars, force, hist, reset_output, other, client, index, saves, manifest, disk,
                   out, sem>>
    /\ UNCHANGED fn_vars

\* the layouts doc_path_for knows; any other raises ValueError
Layouts == {"stem_folder", "flat"}

\* "for f in files: out_path = doc_path_for(...)", then the semaphore and the
\* file tasks
WorkItems ==
    /\ run_pc = "work_items"
    /\ run_pc' = IF cfg.output_layout \in Layouts THEN "gather" ELSE "raised"
    /\ UNCHANGED <<limiter_vars, router_vars, force, hist, reset_output, other, client, index, saves, manifest, disk,
                   out, sem>>
    /\ UNCHANGED fn_vars

\* save is reached when some future has been awaited
fan_in_first ==
    \E t \in Tasks : pc[t] \in {"done", "skipped"}

\* "for fut in asyncio.as_completed(...): await fut" has ended: every future
\* has been awaited without an exception
fan_in ==
    \A t \in Tasks : pc[t] # "no_item" => pc[t] \in {"done", "skipped"}

\* Manifest.save opens the temporary file
SaveOpen ==
    /\ run_pc = "gather"
    /\ fan_in
    /\ disk' = write_text_open(disk, tmp_path("json"))
    /\ saves' = saves + 1
    /\ run_pc' = "save_write"
    /\ UNCHANGED <<limiter_vars, router_vars, force, hist, reset_output, other, client, index, manifest, out, sem>>
    /\ UNCHANGED fn_vars

SaveWrite ==
    /\ run_pc = "save_write"
    /\ disk' = write_text_data(disk, tmp_path("json"), manifest)
    /\ run_pc' = "save_rename"
    /\ UNCHANGED <<limiter_vars, router_vars, force, hist, reset_output, other, client, index, saves, manifest, out, sem>>
    /\ UNCHANGED fn_vars

SaveRename ==
    /\ run_pc = "save_rename"
    /\ disk' = replace(disk, tmp_path("json"), "json")
    /\ run_pc' = "write_index"
    /\ UNCHANGED <<limiter_vars, router_vars, force, hist, reset_output, other, client, index, saves, manifest, out, sem>>
    /\ UNCHANGED fn_vars

\* "if cfg.docgen.write_project_index: await _write_index(...)"
WriteIndex ==
    /\ run_pc = "write_index"
    /\ index' = IF cfg.write_project_index THEN write_index(work_of_run) ELSE index
    /\ run_pc' = "closing_ok"
    /\ UNCHANGED <<limiter_vars, router_vars, force, hist, reset_output, other, client, saves, manifest, disk, out, sem>>
    /\ UNCHANGED fn_vars

\* the process dies while Manifest.save runs, or right after it
Crash ==
    /\ run_pc \in {"save_write", "save_rename", "write_index", "closing_ok"}
    /\ run_pc' = IF run_pc \in {"write_index", "closing_ok"}
                 THEN "crashed_after_save" ELSE "crashed_in_save"
    /\ UNCHANGED <<limiter_vars, router_vars, force, hist, reset_output, other, client, index, saves, manifest, disk, out, sem>>
    /\ UNCHANGED fn_vars

\* "await fut" raises the exception of a failed file task
Abort ==
    /\ run_pc = "gather"
    /\ \E t \in Tasks : pc[t] = "failed"
    /\ run_pc' = "closing_err"
    /\ UNCHANGED <<limiter_vars, router_vars, force, hist, reset_output, other, client, index, saves, manifest, disk, out, sem>>
    /\ UNCHANGED fn_vars

\* finally: groq.close(); the event loop then cancels the tasks still pending
Close ==
    /\ run_pc \in {"closing_ok", "closing_err"}
    /\ run_pc' = IF run_pc = "closing_ok" THEN "ended_ok" ELSE "ended_err"
    /\ pc' = [t \in Tasks |-> IF pc[t] \in {"done", "skipped", "failed", "no_item"}
                              THEN pc[t] ELSE "cancelled"]
    /\ UNCHANGED <<cfg, next_allowed, blocked_until, wake,
                   ncalls, grants, rl_floor, caught>>
    /\ client' = "closed"
    /\ UNCHANGED <<router_vars, force, hist, reset_output, other, index, saves, manifest, disk, out, sem>>
    /\ UNCHANGED fn_vars

\* ------------------------------------------------------------------------
\* Specifications
\* ------------------------------------------------------------------------
Config(en, mi_s, conc, att, models, chars, tier, layout) ==
    [enabled |-> en, service_tier |-> tier, output_layout |-> layout,
     validate_with_models_endpoint |-> TRUE, write_project_index |-> TRUE, min_interval_seconds |-> mi_s, min_remaining_tokens |-> 1,
     max_concurrency |-> conc, max_attempts_per_model |-> att, models |-> models,
     backoff_base_s |-> 1, backoff_max_s |-> 2,
     max_chars_per_request |-> chars, chunk_overlap_lines |-> 1]

RunConfigs ==
    {Config(TRUE, 1, conc, 1, <<"A">>, 3, "", layout) : conc \in {1, 2}, layout \in {"flat", "tree"}}
RouterConfigs == {Config(TRUE, 1, conc, 1, <<"A", "B">>, 4, "flex", "flat") : conc \in {1, 2}}
GenerateConfigs == {Config(en, 1, 1, 2, <<"A", "B">>, 3, "flex", "stem_folder") : en \in BOOLEAN}
TierConfigs ==
    {Config(TRUE, 1, 1, 1, <<"A", "B">>, 3, tier, "flat") : tier \in {"", "on_demand", " On_Demand ", "flex"}}
LimiterConfigs == {Config(en, 2, 2, 2, <<"A", "B">>, 3, "", "flat") : en \in BOOLEAN}

RouterInit ==
    /\ gi = [t \in Tasks |-> 0]
    /\ parts = [t \in Tasks |-> 0]
    /\ partial_docs = [t \in Tasks |-> <<>>]
    /\ sent = [t \in Tasks |-> <<>>]
    /\ mi = [t \in Tasks |-> 0]
    /\ attempt = [t \in Tasks |-> 0]
    /\ disabled = {}
    /\ forced_service_tier = ""
    /\ glog = [t \in Tasks |-> NoLog]
    /\ last_gen = Ended(NoLog, -1, 0)
    /\ gstart = [t \in Tasks |-> {}]
    /\ bcalled = {}
    /\ eff_tier = [t \in Tasks |-> ""]
    /\ late_tiers = {}

RunInit ==
    /\ manifest = load(PrevDisk(hist))
    /\ disk = PrevDisk(hist)
    /\ out = PrevOut(hist)
    /\ sem = cfg.max_concurrency
    /\ client = "open"
    /\ index = PrevIndex(hist)
    /\ saves = 0
    /\ run_pc = "validate"
    /\ reset_output = FALSE
    /\ other = "notes"

\* ------------------------------------------------------------------------
\* chunk_text_by_lines called on its own, on every text of up to MaxLines
\* lines of one, two or five characters
\* ------------------------------------------------------------------------
MaxLines == 3
LineTokens == {"s", "a", "L"}
Texts == UNION {[1..n -> LineTokens] : n \in 0..MaxLines}
Caps == {1, 3, 4}
Overlaps == {0, 1, 2}

NoChunking == [pc |-> "idle", text |-> <<>>, max_chars |-> 0, overlap_lines |-> 0, chunks |-> <<>>]

Chunk ==
    /\ ck.pc = "input"
    /\ ck' = [ck EXCEPT !.pc = "chunked",
                        !.chunks = chunk_text_by_lines(ck.text, ck.max_chars, ck.overlap_lines)]
    /\ UNCHANGED <<limiter_vars, router_vars, run_vars, graph, wk, obs>>

ChunkerNext == Chunk

\* ------------------------------------------------------------------------
\* The import graph.  A path is a string; the scan root is src/ and the
\* project root its parent.  A raw reference is <<prefix, rest>>, the text
\* between the quotes: "./b" is <<"./", "b">>, "react" is <<"", "react">>.
\* A file's text is the sequence of its import statements, each of them
\* [kind, raw] with kind "import" (import .. from, export * from),
\* "require" or "css" (@import).
\* ------------------------------------------------------------------------
MaxImports == 2
src_root == "src/"
SourceFiles == <<"src/a.ts", "src/b.css", "src/b.tsx", "src/lib/index.ts">>
parent(path) == IF path = "src/lib/index.ts" THEN "src/lib/" ELSE "src/"
ts_path_aliases == [p \in {"@/"} |-> "src/"]
Raws == {<<"./", "b">>, <<"@/", "b">>, <<"./", "lib">>, <<"./", "a.ts">>, <<"", "react">>}
Statements == {[kind |-> k, raw |-> r] : k \in {"import", "require"}, r \in Raws}
    \cup {[kind |-> "css", raw |-> <<"./", "b">>]}

ImportEdge(src, target, raw) == [src |-> src, target |-> target, raw |-> raw]

\* None is ""
_resolve_candidate(base_dir, raw, aliases) ==
    IF raw[1] \in DOMAIN aliases
    THEN aliases[raw[1]] \o raw[2]
    ELSE IF raw[1] = "./" THEN base_dir \o raw[2] ELSE ""

_expand_extensions(p) ==
    [i \in 1..9 |-> p \o <<"", ".ts", ".tsx", ".js", ".jsx", ".json", ".css", ".scss", ".md">>[i]]
        \o <<p \o "/index.ts", p \o "/index.tsx", p \o "/index.js", p \o "/index.jsx">>

\* the last candidate that is a scanned file, "" when there is none
RECURSIVE last_in(_, _, _)
last_in(cands, i, file_set) ==
    IF i > Len(cands) THEN ""
    ELSE LET later == last_in(cands, i + 1, file_set)
         IN IF later # "" THEN later ELSE IF cands[i] \in file_set THEN cands[i] ELSE ""

\* the first candidate that is a scanned file, "" when there is none
RECURSIVE first_in(_, _, _)
first_in(cands, i, file_set) ==
    IF i > Len(cands) THEN ""
    ELSE IF cands[i] \in file_set THEN cands[i] ELSE first_in(cands, i + 1, file_set)

\* the matches of one pattern in the text, in text order
RECURSIVE finditer(_, _)
finditer(text, kind) ==
    IF text = <<>> THEN <<>>
    ELSE (IF Head(text).kind = kind THEN <<Head(text).raw>> ELSE <<>>) \o finditer(Tail(text), kind)

\* dict.setdefault(key, []).append(edge)
setdefault_append(map, key, edge) ==
    [k \in DOMAIN map \cup {key} |->
        IF k = key
        THEN IF key \in DOMAIN map THEN Append(map[key], edge) ELSE <<edge>>
        ELSE map[k]]

\* the loop over the raw references of file f, from the i-th on
RECURSIVE add_raws(_, _, _, _, _)
add_raws(f, raws, i, file_set, maps) ==
    IF i > Len(raws) THEN maps
    ELSE LET raw == raws[i]
             resolved == _resolve_candidate(parent(f), raw, ts_path_aliases)
             target_abs == IF resolved = "" THEN "" ELSE first_in(_expand_extensions(resolved), 1, file_set)
             edge == ImportEdge(f, target_abs, raw)
         IN add_raws(f, raws, i + 1, file_set,
                IF target_abs = "" THEN maps
                ELSE [imports_of |-> setdefault_append(maps.imports_of, f, edge),
                      imported_by |-> setdefault_append(maps.imported_by, target_abs, edge)])

\* the loop over the files, from the i-th on
RECURSIVE add_files(_, _, _, _, _)
add_files(files, texts, i, file_set, maps) ==
    IF i > Len(files) THEN maps
    ELSE LET text == texts[files[i]]
             raws == finditer(text, "import") \o finditer(text, "require") \o finditer(text, "css")
         IN add_files(files, texts, i + 1, file_set, add_raws(files[i], raws, 1, file_set, maps))

build_import_graph(files, texts) ==
    add_files(files, texts, 1, {files[i] : i \in 1..Len(files)},
              [imports_of |-> <<>>, imported_by |-> <<>>])

NoGraph == [pc |-> "idle", files |-> <<>>, texts |-> <<>>, imports_of |-> <<>>, imported_by |-> <<>>]

\* texts of up to n statements
StatementSeqs(n) == UNION {[1..k -> Statements] : k \in 0..n}

\* the scanned files: a.ts and any of the others, in scan order
FileLists ==
    {SelectSeq(SourceFiles, LAMBDA p : p \in S \cup {"src/a.ts"}) : S \in SUBSET {SourceFiles[i] : i \in 2..4}}

GraphInputs ==
    {[pc |-> "input", files |-> fl,
      texts |-> [p \in {fl[i] : i \in 1..Len(fl)} |->
                    IF p = "src/a.ts" THEN ta ELSE IF p = "src/lib/index.ts" THEN tl ELSE <<>>],
      imports_of |-> <<>>, imported_by |-> <<>>] :
        fl \in FileLists, ta \in StatementSeqs(MaxImports), tl \in StatementSeqs(1)}

BuildImportGraph ==
    /\ graph.pc = "input"
    /\ LET maps == build_import_graph(graph.files, graph.texts)
       IN graph' = [graph EXCEPT !.pc = "built", !.imports_of = maps.imports_of,
                                 !.imported_by = maps.imported_by]
    /\ UNCHANGED <<limiter_vars, router_vars, run_vars, ck, wk, obs>>

GraphNext == BuildImportGraph

\* ------------------------------------------------------------------------
\* The work items on their own
\* ------------------------------------------------------------------------
NoWork == [pc |-> "idle", files |-> <<>>, layout |-> "", work |-> <<>>]

WorkInputs ==
    {[pc |-> "input", files |-> fs, layout |-> l, work |-> <<>>] :
        fs \in {p \in ScannedFiles \X ScannedFiles : p[1] # p[2]}, l \in {"stem_folder", "flat", "tree"}}

\* "for f in files: out_path = doc_path_for(...); work.append(WorkItem(...))"
BuildWork ==
    /\ wk.pc = "input"
    /\ wk' = IF wk.layout \in Layouts
             THEN [wk EXCEPT !.pc = "built",
                             !.work = [i \in 1..Len(wk.files) |-> WorkItem(wk.files[i], wk.layout)]]
             ELSE [wk EXCEPT !.pc = "raised"]
    /\ UNCHANGED <<limiter_vars, router_vars, run_vars, ck, graph, obs>>

WorkNext == BuildWork

\* ------------------------------------------------------------------------
\* on_success_headers and on_rate_limited called on their own, again and
\* again, on the limiter as the calls before left it
\* ------------------------------------------------------------------------
NoObservation == [n |-> 0, kind |-> "none", hdrs |-> NoHeaders, jitter |-> 0]

ObservedHeaders ==
    {Headers(Absent, rs, rem) : rs \in {Absent, Junk, Secs(0), Secs(2), Secs(4), Num(1)},
                                rem \in {Absent, Junk, Num(0), Num(1), Num(5)}}

ObserveSuccess ==
    /\ \E hdrs \in ObservedHeaders, j \in Jitter :
          /\ blocked_until' = on_success_headers(blocked_until, hdrs, j)
          /\ obs' = [n |-> 1 - obs.n, kind |-> "success", hdrs |-> hdrs, jitter |-> j]
    /\ UNCHANGED <<cfg, next_allowed, pc, wake, ncalls, grants, rl_floor, caught>>
    /\ UNCHANGED <<router_vars, run_vars, ck, graph, wk>>

ObservedRateLimitHeaders ==
    {Headers(ra, rs, Absent) : ra \in {Absent, Junk, Secs(0), Secs(2), Num(-1), Num(0), Num(1)},
                               rs \in {Absent, Junk, Secs(1), Secs(4)}}

ObserveRateLimited ==
    /\ \E hdrs \in ObservedRateLimitHeaders, j \in Jitter :
          /\ blocked_until' = on_rate_limited(blocked_until, hdrs, j)
          /\ obs' = [n |-> 1 - obs.n, kind |-> "rate_limited", hdrs |-> hdrs, jitter |-> j]
    /\ UNCHANGED <<cfg, next_allowed, pc, wake, ncalls, grants, rl_floor, caught>>
    /\ UNCHANGED <<router_vars, run_vars, ck, graph, wk>>

ObserveNext ==
    \/ ObserveSuccess
    \/ ObserveRateLimited

\* no pure function is under call

FnIdle == ck = NoChunking /\ graph = NoGraph /\ wk = NoWork /\ obs = NoObservation

\* one run of generate_docs, from the moment the file tasks are created
Init ==
    /\ LimiterInit
    /\ RouterInit
    /\ cfg \in RunConfigs
    /\ pc = [t \in Tasks |-> "queued"]
    /\ force \in BOOLEAN
    /\ hist \in {hs \in [Tasks -> {"fresh", "cached", "edited", "secret_edited", "doc_missing"}] :
                    \A f \in Tasks : hs[f] \in Histories(f)}
    /\ RunInit
    /\ FnIdle

Next ==
    \/ Tick
    \/ \E t \in Tasks : Start(t)
    \/ \E t \in Tasks : WakeSlot(t)
    \/ \E t \in Tasks : RespOk(t)
    \/ \E t \in Tasks : RespRateLimited(t)
    \/ \E t \in Tasks : RespTierRejected(t)
    \/ \E t \in Tasks : RespServerError(t)
    \/ \E t \in Tasks : WakeRetry(t)
    \/ \E t \in Tasks : RespStructural(t)
    \/ \E t \in Tasks : RespOther(t)
    \/ ValidateModels
    \/ WorkItems
    \/ SaveOpen
    \/ SaveWrite
    \/ SaveRename
    \/ WriteIndex
    \/ Crash
    \/ Abort
    \/ Close

Spec == Init /\ [][Next]_vars

\* the backend answers the request of file task t, one way or another
Answer(t) ==
    \/ RespOk(t)
    \/ RespRateLimited(t)
    \/ RespTierRejected(t)
    \/ RespServerError(t)
    \/ RespStructural(t)
    \/ RespOther(t)

\* the next step of file task t: it stands at one place, so one of these at most
\* is enabled
TaskStep(t) ==
    \/ Start(t)
    \/ WakeSlot(t)
    \/ WakeRetry(t)
    \/ Answer(t)

\* the next step of generate_docs itself
MainStep ==
    \/ ValidateModels
    \/ WorkItems
    \/ SaveOpen
    \/ SaveWrite
    \/ SaveRename
    \/ WriteIndex
    \/ Abort
    \/ Close

\* The event loop runs every coroutine that can run, time passes, and the
\* backend answers every request.  Nothing is assumed of Crash.
RunFair ==
    /\ WF_vars(Tick)
    /\ \A t \in Tasks : WF_vars(TaskStep(t))
    /\ WF_vars(MainStep)

\* a run whose work items are two edited files, with one permit and with two
InitLive ==
    /\ LimiterInit
    /\ RouterInit
    /\ cfg \in {Config(TRUE, 1, conc, 1, <<"A">>, 3, "", "flat") : conc \in {1, 2}}
    /\ pc = [t \in Tasks |-> IF t <= 2 THEN "queued" ELSE "no_item"]
    /\ force = FALSE
    /\ hist = [f \in Tasks |-> IF f <= 2 THEN "edited" ELSE "cached"]
    /\ RunInit
    /\ FnIdle

SpecLive == InitLive /\ [][Next]_vars /\ RunFair

\* a run that regenerates every file, with two models
InitRouter ==
    /\ LimiterInit
    /\ RouterInit
    /\ cfg \in RouterConfigs
    /\ pc = [t \in Tasks |-> "queued"]
    /\ force = FALSE
    /\ hist = [f \in Tasks |-> IF f <= 2 THEN "fresh" ELSE "cached"]
    /\ RunInit
    /\ FnIdle

SpecRouter == InitRouter /\ [][Next]_vars

\* a run with one file to regenerate: generate is called for its two chunks
\* and the merge, with two models and two attempts each
InitGenerate ==
    /\ LimiterInit
    /\ RouterInit
    /\ cfg \in GenerateConfigs
    /\ pc = [t \in Tasks |-> "queued"]
    /\ force = FALSE
    /\ hist = [f \in Tasks |-> IF f = 1 THEN "fresh" ELSE "cached"]
    /\ RunInit
    /\ FnIdle

SpecGenerate == InitGenerate /\ [][Next]_vars

\* a run with one file to regenerate, under every configured tier
InitTier ==
    /\ LimiterInit
    /\ RouterInit
    /\ cfg \in TierConfigs
    /\ pc = [t \in Tasks |-> "queued"]
    /\ force = FALSE
    /\ hist = [f \in Tasks |-> IF f = 1 THEN "fresh" ELSE "cached"]
    /\ RunInit
    /\ FnIdle

SpecTier == InitTier /\ [][Next]_vars

\* a run without reset_output over the manifest of a run that documented the
\* files of Tasks: any of them may be no work item now, being outside
\* only_rel_paths ("cached", "edited") or gone from the source tree ("removed")
InitFilter ==
    /\ LimiterInit
    /\ RouterInit
    /\ cfg = Config(TRUE, 1, 2, 1, <<"A">>, 3, "", "flat")
    /\ \E none \in SUBSET Tasks :
          /\ pc = [t \in Tasks |-> IF t \in none THEN "no_item" ELSE "queued"]
          /\ hist \in {hs \in [Tasks -> {"fresh", "cached", "edited", "doc_missing", "removed"}] :
                          \A f \in Tasks : hs[f] \in IF f \in none
                                                     THEN {"cached", "edited", "removed"}
                                                     ELSE Histories(f) \cap {"fresh", "cached", "edited", "doc_missing"}}
    /\ force \in BOOLEAN
    /\ RunInit
    /\ FnIdle

SpecFilter == InitFilter /\ [][Next]_vars

\* a run from its beginning, with and without reset_output, over what a
\* previous run left
InitReset ==
    /\ LimiterInit
    /\ RouterInit
    /\ cfg = Config(TRUE, 1, 2, 1, <<"A">>, 3, "", "flat")
    /\ pc = [t \in Tasks |-> "queued"]
    /\ force = FALSE
    /\ hist \in {[f \in Tasks |-> "cached"], [f \in Tasks |-> IF f = 1 THEN "fresh" ELSE "edited"]}
    /\ reset_output \in BOOLEAN
    /\ other \in {"missing", "notes"}
    /\ manifest = EmptyFiles
    /\ disk = PrevDisk(hist)
    /\ out = PrevOut(hist)
    /\ index = PrevIndex(hist)
    /\ sem = cfg.max_concurrency
    /\ client = "open"
    /\ saves = 0
    /\ run_pc = "setup"
    /\ FnIdle

NextReset ==
    \/ Setup
    \/ Tick
    \/ \E t \in Tasks : Start(t)
    \/ \E t \in Tasks : WakeSlot(t)
    \/ \E t \in Tasks : RespOk(t)
    \/ \E t \in Tasks : RespRateLimited(t)
    \/ \E t \in Tasks : RespTierRejected(t)
    \/ \E t \in Tasks : RespServerError(t)
    \/ \E t \in Tasks : WakeRetry(t)
    \/ \E t \in Tasks : RespStructural(t)
    \/ \E t \in Tasks : RespOther(t)
    \/ ValidateModels
    \/ WorkItems
    \/ SaveOpen
    \/ SaveWrite
    \/ SaveRename
    \/ WriteIndex
    \/ Crash
    \/ Abort
    \/ Close

SpecReset == InitReset /\ [][NextReset]_vars

\* the limiter alone, called by concurrent clients
InitL ==
    /\ LimiterInit
    /\ RouterInit
    /\ cfg \in LimiterConfigs
    /\ pc = [t \in Tasks |-> "idle"]
    /\ force = FALSE
    /\ hist = [f \in Tasks |-> "fresh"]
    /\ RunInit
    /\ FnIdle

SpecLimiter == InitL /\ [][LimiterNext]_vars

\* time passes, and the event loop resumes a task whose asyncio.sleep is over
LimiterFair ==
    /\ WF_vars(Tick)
    /\ \A t \in Tasks : WF_vars(LWake(t))

SpecLimiterLive == InitL /\ [][LimiterNext]_vars /\ LimiterFair

\* the chunker alone, on every input of the bounds
InitChunker ==
    /\ LimiterInit
    /\ RouterInit
    /\ cfg = Config(TRUE, 1, 1, 1, <<"A">>, 3, "", "flat")
    /\ pc = [t \in Tasks |-> "idle"]
    /\ force = FALSE
    /\ hist = [f \in Tasks |-> "cached"]
    /\ RunInit
    /\ ck \in {[pc |-> "input", text |-> tx, max_chars |-> m, overlap_lines |-> o, chunks |-> <<>>] :
                  tx \in Texts, m \in Caps, o \in Overlaps}
    /\ graph = NoGraph
    /\ wk = NoWork
    /\ obs = NoObservation

SpecChunker == InitChunker /\ [][ChunkerNext]_vars

\* the graph builder alone, on every input of the bounds
InitGraph ==
    /\ LimiterInit
    /\ RouterInit
    /\ cfg = Config(TRUE, 1, 1, 1, <<"A">>, 3, "", "flat")
    /\ pc = [t \in Tasks |-> "idle"]
    /\ force = FALSE
    /\ hist = [f \in Tasks |-> "cached"]
    /\ RunInit
    /\ ck = NoChunking
    /\ graph \in GraphInputs
    /\ wk = NoWork
    /\ obs = NoObservation

SpecGraph == InitGraph /\ [][GraphNext]_vars

\* the work items alone, for every two scanned files and every layout name
InitWork ==
    /\ LimiterInit
    /\ RouterInit
    /\ cfg = Config(TRUE, 1, 1, 1, <<"A">>, 3, "", "flat")
    /\ pc = [t \in Tasks |-> "idle"]
    /\ force = FALSE
    /\ hist = [f \in Tasks |-> "cached"]
    /\ RunInit
    /\ ck = NoChunking
    /\ graph = NoGraph
    /\ wk \in WorkInputs
    /\ obs = NoObservation

SpecWork == InitWork /\ [][WorkNext]_vars

\* the success observation alone, with the limiter enabled and disabled
InitObserve ==
    /\ LimiterInit
    /\ RouterInit
    /\ cfg \in LimiterConfigs
    /\ pc = [t \in Tasks |-> "idle"]
    /\ force = FALSE
    /\ hist = [f \in Tasks |-> "cached"]
    /\ RunInit
    /\ FnIdle

SpecObserve == InitObserve /\ [][ObserveNext]_vars

\* ------------------------------------------------------------------------
\* Properties
\* ------------------------------------------------------------------------

\* file tasks inside the body of process_one, at one of its suspension points
InBody == {t \in Tasks : pc[t] \in {"call", "sleep", "retry_sleep"}}

\* C1: at no instant are more than max_concurrency file tasks between the read
\* of their file and the end of their manifest update.
C1_ConcurrencyBound == Cardinality(InBody) <= cfg.max_concurrency

\* the bound is reached while another file task waits for a permit
C1_Witness ==
    /\ Cardinality(InBody) = cfg.max_concurrency
    /\ \E t \in Tasks : pc[t] = "queued"

\* C2: with throttling enabled, a return of wait_for_slot comes at least
\* min_interval_seconds after the return before it, whoever the callers are.
C2_MinInterval ==
    (cfg.enabled /\ grants.n >= 2) => grants.gap >= cfg.min_interval_seconds

\* a second return while another caller is still asleep in wait_for_slot
C2_Witness ==
    /\ cfg.enabled
    /\ grants.n >= 2
    /\ \E t, u \in Tasks : pc[t] = "call" /\ pc[u] = "sleep"

\* C3: with throttling enabled, wait_for_slot never returns before t + wait_s
\* of an on_rate_limited call made at t, also to a caller that was asleep in
\* wait_for_slot when the call was made.
C3_BlockRespected ==
    (cfg.enabled /\ grants.n >= 1) => grants.early <= 0

\* a return to a caller that was asleep when the rate limit was observed
C3_Witness ==
    /\ cfg.enabled
    /\ grants.n >= 1
    /\ grants.caught

AllCached == \A f \in Tasks : hist[f] = "cached"

\* C4: with force = false, a manifest whose hash matches every file and every
\* document present, no file task calls the router or the backend.
C4_Idempotent ==
    (~force /\ AllCached) =>
        /\ bcalled = {}
        /\ \A t \in Tasks : gi[t] = 0 /\ pc[t] \in {"queued", "skipped"}

\* such a run has ended with every work item skipped
C4_Witness ==
    /\ ~force
    /\ AllCached
    /\ run_pc = "ended_ok"
    /\ \A t \in Tasks : pc[t] = "skipped"

\* file f is the one file whose bytes changed since the run that documented
\* every file
OnlyModified(f) ==
    /\ hist[f] \in {"edited", "secret_edited"}
    /\ \A g \in Tasks \ {f} : hist[g] = "cached"

Untouched(g) ==
    /\ g \notin bcalled
    /\ out[g] = PrevOut(hist)[g]
    /\ manifest[g] = PrevFiles(hist)[g]

Regenerated(f) ==
    /\ out[f] = "new"
    /\ manifest[f].has
    /\ manifest[f].updated_at = "new"

\* C5 as stated: after a change of any byte of one file, a run with
\* force = false that completes has regenerated exactly that file.
C5_AnyByte ==
    \A f \in Tasks :
        (~force /\ OnlyModified(f)) =>
            /\ \A g \in Tasks \ {f} : Untouched(g)
            /\ run_pc = "ended_ok" => Regenerated(f)

\* C5: after a change of one file that changes its redacted text, a run with
\* force = false never touches another file, never skips that file, and has
\* regenerated it when it completes; a change inside a redacted secret leaves
\* the hash equal and the file is skipped like the others.
C5_RedactedTextChanged ==
    \A f \in Tasks :
        (~force /\ OnlyModified(f)) =>
            /\ \A g \in Tasks \ {f} : Untouched(g)
            /\ IF redact_secrets(PrevText(f, hist[f])) # redact_secrets(content(f))
               THEN /\ pc[f] # "skipped"
                    /\ run_pc = "ended_ok" => Regenerated(f)
               ELSE Untouched(f)

\* the changed file has been regenerated and the other one skipped
C5_Witness ==
    \E f \in Tasks :
        /\ ~force
        /\ OnlyModified(f)
        /\ run_pc = "ended_ok"
        /\ Regenerated(f)
        /\ \A g \in Tasks \ {f} : pc[g] = "skipped"

\* C6: with force = true no work item is skipped; a work item that completes
\* has called the router and rewritten its document and its manifest entry.
C6_ForceOverridesCache ==
    force =>
        \A t \in Tasks :
            /\ pc[t] # "skipped"
            /\ pc[t] = "done" => (gi[t] >= 1 /\ t \in bcalled /\ Regenerated(t))

\* a forced run over a fully cached tree has regenerated every file
C6_Witness ==
    /\ force
    /\ AllCached
    /\ run_pc = "ended_ok"
    /\ \A t \in Tasks : Regenerated(t)

\* chunks of file f plus the merge call
CallsNeeded(f) ==
    LET n == Len(chunk_text_by_lines(redact_secrets(content(f)),
                                     cfg.max_chars_per_request, cfg.chunk_overlap_lines))
    IN IF n > 1 THEN n + 1 ELSE n

\* C7: the manifest entry and the document of a file change only when every
\* chunk call and the merge call have returned; a file task that failed has
\* left both as they were.
C7_EntryOnlyOnFullSuccess ==
    \A t \in Tasks :
        /\ (manifest[t] # PrevFiles(hist)[t] \/ out[t] # PrevOut(hist)[t]) =>
               (parts[t] = CallsNeeded(t) /\ pc[t] = "done" /\ Regenerated(t))
        /\ pc[t] = "failed" =>
               (manifest[t] = PrevFiles(hist)[t] /\ out[t] = PrevOut(hist)[t])

\* a file task failed after a chunk of it had succeeded
C7_Witness ==
    \E t \in Tasks :
        /\ pc[t] = "failed"
        /\ parts[t] >= 1
        /\ manifest[t] = PrevFiles(hist)[t]

\* C8: manifest.json is never partial: it holds the content from before the
\* save until the rename, and the saved content after it.
C8_AtomicManifest ==
    /\ disk.json.state # "partial"
    /\ run_pc \in {"gather", "closing_err", "ended_err", "save_write", "save_rename",
                   "crashed_in_save"} => disk.json = PrevDisk(hist).json
    /\ run_pc \in {"write_index", "closing_ok", "ended_ok", "crashed_after_save"} =>
           disk.json = Complete(manifest)

\* the process died with a partial temporary file and entries to save
C8_Witness ==
    /\ run_pc = "crashed_in_save"
    /\ disk.tmp.state = "partial"
    /\ manifest # PrevFiles(hist)
    /\ disk.json = PrevDisk(hist).json

\* C9: when the first model answers its first attempt with HTTP 400 and the
\* second model answers its first attempt with success, generate has made one
\* backend call to each and returns the second model.
C9_RouterFallback ==
    /\ \A t \in Tasks :
           (glog[t].first = "400" /\ pc[t] \in {"call", "sleep", "retry_sleep"}) =>
               (mi[t] = 2 /\ ((pc[t] = "call" /\ attempt[t] = 1) => glog[t].calls = 1))
    /\ (last_gen.first = "400" /\ last_gen.result >= 1 /\ last_gen.attempt = 1) =>
           (last_gen.result = 2 /\ last_gen.calls = 2)

\* a generate call returned the second model after a 400 of the first
C9_Witness ==
    /\ last_gen.first = "400"
    /\ last_gen.result = 2
    /\ last_gen.attempt = 1
    /\ last_gen.calls = 2

\* C10: a generate call makes no backend call to a model that was disabled when
\* the call began, and _disabled_models only grows.
C10_DisabledSkipped ==
    /\ [](\A t \in Tasks : pc[t] = "call" => cfg.models[mi[t]] \notin gstart[t])
    /\ [][disabled \subseteq disabled']_vars

\* a backend call of a generate call that began after a model was disabled
C10_Witness ==
    \E t \in Tasks : pc[t] = "call" /\ gstart[t] # {} /\ gstart[t] \subseteq disabled

\* C11: once the tier is forced it is never cleared, and every backend request
\* issued from then on omits the service tier or carries the forced value,
\* never the tier of the configuration.
C11_ForcedTierOnEveryRequest ==
    /\ [](late_tiers \subseteq {"", "on_demand"})
    /\ [][forced_service_tier # "" => forced_service_tier' = forced_service_tier]_vars

\* file tasks inside a generate call that has had a response
Answered == {t \in Tasks : pc[t] \in {"call", "sleep", "retry_sleep"} /\ glog[t].calls > 0}

Structural == {"400", "404", "422"}
TierRejections == {"400 service_tier", "498 capacity_exceeded"}

\* C12 as stated: after any answer with a 4xx status other than 429 the model
\* is in the disabled set and generate has gone on to the next model.
C12_Any4xxDisables ==
    \A t \in Answered :
        glog[t].last \in Structural \cup TierRejections \cup {"401"} =>
            /\ cfg.models[glog[t].model] \in disabled
            /\ mi[t] > glog[t].model

\* C12: after an answer with status 400 (other than the service-tier
\* rejection), 404 or 422 the model is in the disabled set and generate has
\* gone on to the next model; after another 4xx other than 429 generate goes on
\* to the next model and adds nothing to the disabled set; after the
\* service-tier rejection (400) or capacity_exceeded (498) it goes on with the
\* attempt loop of the model and adds nothing to the disabled set.
C12_StructuralDisables ==
    /\ [](\A t \in Answered :
             /\ glog[t].last \in Structural =>
                    (cfg.models[glog[t].model] \in disabled /\ mi[t] > glog[t].model)
             /\ glog[t].last = "401" => mi[t] > glog[t].model
             /\ glog[t].last \in TierRejections =>
                    IF pc[t] = "retry_sleep" \/ glog[t].att < cfg.max_attempts_per_model
                    THEN mi[t] = glog[t].model
                    ELSE mi[t] > glog[t].model)
    /\ [](last_gen.result = 0 /\ last_gen.last \in Structural =>
             cfg.models[last_gen.model] \in disabled)
    /\ [][\A t \in Tasks :
              (glog'[t].calls = glog[t].calls + 1 /\ glog'[t].last \in TierRejections \cup {"401"})
                  => disabled' = disabled]_vars

\* a model that is not disabled answered 401 and the task is on the next model
C12_Witness ==
    \E t \in Answered :
        /\ glog[t].last = "401"
        /\ cfg.models[glog[t].model] \notin disabled
        /\ mi[t] = glog[t].model + 1

\* C13: a generate call that returned a model ended on a successful response
\* of that model; a generate call that raised had no model left (the models
\* after the last response are disabled, and a response that asks for a retry
\* came on the last attempt) and carries the last error of the call; the run
\* goes to its error path only when a file task has failed that way.
C13_ReturnOrFinalFailure ==
    /\ last_gen.result >= 1 => (last_gen.last = "ok" /\ last_gen.model = last_gen.result)
    /\ last_gen.result = 0 =>
           /\ last_gen.last # "ok"
           /\ last_gen.last_err = (IF last_gen.calls = 0 THEN "None" ELSE last_gen.last)
           /\ last_gen.last \in TierRejections \cup {"429", "5xx"} =>
                  last_gen.att = cfg.max_attempts_per_model
           /\ \A k \in (last_gen.model + 1)..Len(cfg.models) : cfg.models[k] \in disabled
    /\ run_pc \in {"closing_err", "ended_err"} => \E t \in Tasks : pc[t] = "failed"
    /\ \A t \in Tasks : pc[t] = "failed" => last_gen.result # -1

\* a generate call raised after several responses, the last error not the first
C13_Witness ==
    /\ last_gen.result = 0
    /\ last_gen.first = "400"
    /\ last_gen.calls >= 3
    /\ last_gen.last_err = "5xx"
    /\ \E t \in Tasks : pc[t] = "failed"

\* C14: when generate_docs has returned or raised, the backend client it
\* constructed is closed.
C14_ClientClosed ==
    run_pc \in {"ended_ok", "ended_err", "raised"} => client = "closed"

\* C15: Manifest.save runs at most once, and only when every work item has
\* finished; when a work item has failed there is no save, INDEX.md is as it
\* was, and manifest.json holds what it held before the run.
C15_SaveAfterFanIn ==
    /\ saves <= 1
    /\ saves = 1 => \A t \in Tasks : pc[t] \in {"done", "skipped"}
    /\ (\E t \in Tasks : pc[t] = "failed") =>
           /\ saves = 0
           /\ index = PrevIndex(hist)
           /\ disk = PrevDisk(hist)

\* a run ended on its error path after one work item failed and another one
\* had set its manifest entry
C15_Witness ==
    /\ run_pc = "ended_err"
    /\ \E t \in Tasks : pc[t] = "failed"
    /\ \E t \in Tasks : pc[t] = "done"
    /\ manifest # PrevFiles(hist)
    /\ disk = PrevDisk(hist)

\* the generate calls a regenerated file needs: chunk 1 to chunk N in order,
\* then the merge of the N partial documents when N > 1
Expected(f) ==
    LET N == Len(chunk_text_by_lines(redact_secrets(content(f)), cfg.max_chars_per_request,
                                     cfg.chunk_overlap_lines))
        cs == [g \in 1..N |->
                 [kind |-> "chunk", i |-> g,
                  code |-> chunk_text_by_lines(redact_secrets(content(f)),
                               cfg.max_chars_per_request, cfg.chunk_overlap_lines)[g],
                  docs |-> <<>>]]
    IN IF N > 1
       THEN Append(cs, [kind |-> "merge", i |-> 0, code |-> <<>>, docs |-> [g \in 1..N |-> g]])
       ELSE cs

\* C16: the generate calls of a file task are a prefix of chunk 1 .. chunk N
\* followed, when N > 1, by one merge call over the partial documents in chunk
\* order; a call starts only when the one before it has returned; a
\* regenerated file has made all of them: N + 1 calls for N > 1, one for N = 1.
C16_ChunkOrder ==
    \A t \in Tasks :
        /\ Len(sent[t]) <= Len(Expected(t))
        /\ sent[t] = SubSeq(Expected(t), 1, Len(sent[t]))
        /\ Len(sent[t]) = gi[t]
        /\ parts[t] \in {gi[t] - 1, gi[t]} \cap Nat
        /\ (pc[t] \in {"call", "sleep", "retry_sleep"}) => parts[t] = gi[t] - 1
        /\ pc[t] = "done" =>
               /\ sent[t] = Expected(t)
               /\ parts[t] = Len(Expected(t))

\* a file of two chunks and a file of one chunk have been regenerated
C16_Witness ==
    /\ \E t \in Tasks : pc[t] = "done" /\ Len(sent[t]) = 3 /\ sent[t][3].docs = <<1, 2>>
    /\ \E t \in Tasks : pc[t] = "done" /\ Len(sent[t]) = 1

\* ------------------------------------------------------------------------
\* The chunker (SpecChunker)
\* ------------------------------------------------------------------------
\* the chunks are windows of the text that begin at the lines f[k]: every one
\* non-empty, the first from line 1, the last up to the last line, and every
\* next one ending after the previous one
Windows(text, chunks, f) ==
    /\ f[1] = 1
    /\ \A k \in 1..Len(chunks) :
        /\ chunks[k] # <<>>
        /\ f[k] + Len(chunks[k]) - 1 <= Len(text)
        /\ chunks[k] = SubSeq(text, f[k], f[k] + Len(chunks[k]) - 1)
    /\ \A k \in 1..(Len(chunks) - 1) : f[k + 1] + Len(chunks[k + 1]) > f[k] + Len(chunks[k])
    /\ f[Len(chunks)] + Len(chunks[Len(chunks)]) - 1 = Len(text)

Starts(text, chunks) == [1..Len(chunks) -> 1..Len(text)]

\* C17: chunker completeness.  Whatever the text, the cap and the overlap,
\* the chunks are windows of the text in source order that leave no line
\* out: the first begins at line 1, every next one begins no later than
\* right after the previous one and no earlier than it, and the last one,
\* the terminal partial chunk, ends at the last line.  Every line is in a
\* chunk as it is in the text, terminator included.
C17_Completeness ==
    ck.pc = "chunked" =>
        IF ck.text = <<>>
        THEN ck.chunks = << <<>> >>
        ELSE /\ Len(ck.chunks) >= 1
             /\ \E f \in Starts(ck.text, ck.chunks) :
                 /\ Windows(ck.text, ck.chunks, f)
                 /\ \A k \in 1..(Len(ck.chunks) - 1) :
                        f[k] <= f[k + 1] /\ f[k + 1] <= f[k] + Len(ck.chunks[k])

\* a split text whose last chunk is below the cap, with an overlap
C17_Witness ==
    /\ ck.pc = "chunked"
    /\ Len(ck.chunks) >= 3
    /\ ck.overlap_lines > 0
    /\ TextLen(ck.chunks[Len(ck.chunks)]) < ck.max_chars

\* C18: chunk size cap.  Whatever the text, the cap and the overlap, a chunk
\* has no more characters than the cap, unless it contains a line that is
\* itself longer than the cap.
C18_ChunkCap ==
    ck.pc = "chunked" =>
        \A k \in 1..Len(ck.chunks) :
            \/ TextLen(ck.chunks[k]) <= ck.max_chars
            \/ \E i \in 1..Len(ck.chunks[k]) : LineLen(ck.chunks[k][i]) > ck.max_chars

\* C19: chunk overlap.  On a split text, with an overlap of N > 0 lines the
\* first N lines of every chunk after the first are the last N lines of the
\* chunk before it; with N = 0 every chunk begins right after the end of
\* the chunk before it, so that no line is in two chunks.
C19_SharedLines ==
    (ck.pc = "chunked" /\ Len(ck.chunks) >= 2) =>
        IF ck.overlap_lines > 0
        THEN \A k \in 1..(Len(ck.chunks) - 1) :
                LET N == ck.overlap_lines
                    earlier == ck.chunks[k]
                    later == ck.chunks[k + 1]
                IN /\ Len(earlier) >= N
                   /\ Len(later) >= N
                   /\ SubSeq(later, 1, N) = SubSeq(earlier, Len(earlier) - N + 1, Len(earlier))
        ELSE \E f \in Starts(ck.text, ck.chunks) :
                /\ Windows(ck.text, ck.chunks, f)
                /\ \A k \in 1..(Len(ck.chunks) - 1) : f[k + 1] = f[k] + Len(ck.chunks[k])

\* C19 as amended: on a split text every chunk after the first begins with
\* the last min(N, lines of the chunk before it) lines of the chunk before
\* it and goes on with the lines that follow that chunk in the text, so
\* that successive chunks share exactly those lines; with N = 0 they share
\* none.
C19_SharedLinesUpToChunk ==
    (ck.pc = "chunked" /\ Len(ck.chunks) >= 2) =>
        \E f \in Starts(ck.text, ck.chunks) :
            /\ Windows(ck.text, ck.chunks, f)
            /\ \A k \in 1..(Len(ck.chunks) - 1) :
                LET m == Min(ck.overlap_lines, Len(ck.chunks[k]))
                IN /\ f[k + 1] = f[k] + Len(ck.chunks[k]) - m
                   /\ SubSeq(ck.chunks[k + 1], 1, m)
                        = SubSeq(ck.chunks[k], Len(ck.chunks[k]) - m + 1, Len(ck.chunks[k]))

\* a chunk of one line followed by a chunk that begins with that line, under
\* an overlap of two lines, and then a chunk that shares two lines
C19_Witness ==
    /\ ck.pc = "chunked"
    /\ ck.overlap_lines = 2
    /\ Len(ck.chunks) >= 3
    /\ Len(ck.chunks[1]) = 1
    /\ Len(ck.chunks[2]) >= 2
    /\ ck.chunks[2][1] = ck.chunks[1][1]

\* ------------------------------------------------------------------------
\* The import graph (SpecGraph)
\* ------------------------------------------------------------------------
\* the entries of the map under the key that are the edge
Entries(map, key, edge) ==
    IF key \in DOMAIN map THEN {j \in 1..Len(map[key]) : map[key][j] = edge} ELSE {}

graph_files == {graph.files[i] : i \in 1..Len(graph.files)}

\* C20: graph duality.  After build_import_graph, an edge listed in the
\* forward map under key a has source a, and the reverse map lists exactly
\* one edge with its source, target and raw text under the key of its
\* target; an edge listed in the reverse map under key b has target b, and
\* the forward map lists exactly one such edge under the key of its source;
\* the source and the target of every edge are files given to the builder.
C20_Duality ==
    graph.pc = "built" =>
        /\ \A a \in DOMAIN graph.imports_of : \A i \in 1..Len(graph.imports_of[a]) :
            LET edge == graph.imports_of[a][i]
            IN /\ edge.src = a
               /\ Cardinality(Entries(graph.imported_by, edge.target, edge)) = 1
               /\ {edge.src, edge.target} \subseteq graph_files
        /\ \A b \in DOMAIN graph.imported_by : \A i \in 1..Len(graph.imported_by[b]) :
            LET edge == graph.imported_by[b][i]
            IN /\ edge.target = b
               /\ Cardinality(Entries(graph.imports_of, edge.src, edge)) = 1
               /\ {edge.src, edge.target} \subseteq graph_files

\* ------------------------------------------------------------------------
\* Work items (SpecWork)
\* ------------------------------------------------------------------------

\* C21: a document per source file.  The work items of two distinct source
\* files of a run have distinct output paths, under either layout, so that
\* no work item writes over the document of another.
C21_DistinctDocs ==
    wk.pc = "built" =>
        \A i \in 1..Len(wk.work) : \A j \in 1..Len(wk.work) :
            i # j => wk.work[i].out_path # wk.work[j].out_path

\* the place of file f among the files of the run, by ascending key
Position(f) == 1 + Cardinality({g \in Tasks : key_rank(as_posix(rel_path(g))) < key_rank(as_posix(rel_path(f)))})

\* C22: the index.  When the run has written INDEX.md it holds, after its
\* two heading lines, exactly one bullet per work item of the run, skipped
\* items included, in ascending order of the relative-path key, whatever
\* the order in which the file tasks finished.
C22_IndexSorted ==
    (run_pc \in {"closing_ok", "ended_ok"} /\ cfg.write_project_index) =>
        /\ Len(index) = 2 + NumFiles
        /\ \A f \in Tasks :
            /\ pc[f] \in {"done", "skipped"}
            /\ index[2 + Position(f)] = bullet(WorkItem(rel_path(f), cfg.output_layout))

\* the run ended with a skipped file and a regenerated one, the file that
\* was scanned first listed second
C22_Witness ==
    /\ run_pc = "ended_ok"
    /\ pc[1] = "skipped"
    /\ pc[2] = "done"
    /\ index[4] = "- b.ts -> [src/b.md](src/b.md)"

\* C23: redaction precedes hashing and transmission.  No message handed to
\* the router carries a line that is a secret; the hash a run stores for a
\* file is the hash of its redacted text; and for a file that differs from
\* what the previous run read only inside a secret, the hash is the one the
\* previous run stored, so without force the file is never regenerated.
C23_RedactFirst ==
    \A t \in Tasks :
        /\ \A i \in 1..Len(sent[t]) : \A k \in 1..Len(sent[t][i].code) :
                sent[t][i].code[k] \notin Secrets
        /\ (manifest[t].has /\ manifest[t].updated_at = "new") =>
                manifest[t].sha256 = sha256_text(redact_secrets(content(t)))
        /\ hist[t] = "secret_edited" =>
                /\ manifest[t].has
                /\ manifest[t].sha256 = PrevFiles(hist)[t].sha256
                /\ ~force => (gi[t] = 0 /\ pc[t] \in {"queued", "skipped", "cancelled"})

\* a forced run has regenerated a file whose secret was replaced: the chunk
\* that was sent holds the placeholder, and the new entry has the old hash
C23_Witness ==
    \E t \in Tasks :
        /\ hist[t] = "secret_edited"
        /\ pc[t] = "done"
        /\ sent[t] # <<>>
        /\ REDACTED \in {sent[t][1].code[k] : k \in 1..Len(sent[t][1].code)}
        /\ manifest[t].updated_at = "new"
        /\ manifest[t].sha256 = PrevFiles(hist)[t].sha256

\* ------------------------------------------------------------------------
\* The service tier of a request (SpecTier)
\* ------------------------------------------------------------------------

\* C24: the service tier on the wire.  The request a task has in flight
\* omits the service_tier field when the effective tier of the attempt is
\* unset or is on_demand, whether that comes from the configuration or
\* from the forced fallback, and carries any other tier unchanged.
C24_TierField ==
    \A t \in Tasks :
        pc[t] = "call" =>
            IF eff_tier[t] \in {"", "on_demand"}
            THEN kwargs_service_tier(eff_tier[t]) = "omitted"
            ELSE kwargs_service_tier(eff_tier[t]) = eff_tier[t]

\* ------------------------------------------------------------------------
\* Reset (SpecReset)
\* ------------------------------------------------------------------------

\* C25: reset.  With reset_output the run removes the src/ subtree and
\* INDEX.md of the output root and the state directory, and leaves the other
\* entries of the output root as they are; it does so before the manifest
\* is loaded, so the manifest starts empty; no file is skipped although
\* force is false, and a run that completes has regenerated every file.
C25_Reset ==
    /\ []((reset_output /\ run_pc # "setup") =>
            /\ \A t \in Tasks : pc[t] # "skipped"
            /\ run_pc = "ended_ok" => \A t \in Tasks : Regenerated(t))
    /\ [][(reset_output /\ run_pc = "setup") =>
            /\ other' = other
            /\ out' = [f \in Tasks |-> "missing"]
            /\ index' = <<>>
            /\ disk' = [json |-> Missing, tmp |-> Missing]
            /\ manifest' = EmptyFiles]_vars

\* a reset run over a fully cached tree has ended with every file
\* regenerated and the notes of the output root in place
C25_Witness ==
    /\ reset_output
    /\ ~force
    /\ AllCached
    /\ other = "notes"
    /\ run_pc = "ended_ok"
    /\ \A t \in Tasks : Regenerated(t)


\* the place of attempt a on model j among the attempts of one generate call
AttemptRank(j, a) == (j - 1) * cfg.max_attempts_per_model + a

\* the attempts generate has made or is making, and the responses it has had
Attempting(t) == pc[t] \in {"call", "sleep"}

\* C26: in one generate call every backend call is made at an attempt number
\* of 1..max_attempts_per_model on its model, and at a later attempt of the
\* same model or at a later model than the call before it, whatever that call
\* was answered with (429, tier or capacity rejection, 5xx); so the responses
\* of the call never outnumber the attempts passed, and a generate call ends
\* after at most |models| x max_attempts_per_model backend calls.
C26_AttemptBudget ==
    /\ \A t \in Tasks :
          /\ pc[t] \in {"call", "sleep", "retry_sleep"} =>
                /\ mi[t] \in 1..Len(cfg.models)
                /\ attempt[t] \in 1..cfg.max_attempts_per_model
          /\ (Attempting(t) /\ glog[t].calls > 0) =>
                AttemptRank(glog[t].model, glog[t].att) < AttemptRank(mi[t], attempt[t])
          /\ Attempting(t) => glog[t].calls < AttemptRank(mi[t], attempt[t])
          /\ glog[t].calls <= Len(cfg.models) * cfg.max_attempts_per_model
    /\ last_gen.calls <= Len(cfg.models) * cfg.max_attempts_per_model

\* a generate call that was rate-limited at every attempt has ended, after
\* |models| x max_attempts_per_model backend calls
C26_Witness ==
    /\ cfg.max_attempts_per_model > 1
    /\ last_gen.result = 0
    /\ last_gen.last = "429"
    /\ last_gen.first = "-"
    /\ last_gen.last_err = "429"
    /\ last_gen.calls = Len(cfg.models) * cfg.max_attempts_per_model


\* the step in which the backend answers the request of task t with one of
\* the outcomes os: the response is logged in the current generate call, or
\* it ends the call with no model left
Responds(t, os) ==
    /\ pc[t] = "call"
    /\ \/ glog'[t].calls = glog[t].calls + 1 /\ glog'[t].last \in os
       \/ pc'[t] = "failed" /\ last_gen'.calls = glog[t].calls + 1 /\ last_gen'.last \in os

\* C27: after a rate-limit response or a status >= 500 generate goes on with
\* the next attempt on the same model while attempts remain (after the backoff
\* sleep for a 5xx) and with a later model otherwise, and the response adds
\* nothing to the disabled set; a rate-limit response has been observed by the
\* limiter before the next request is issued: with the limiter enabled
\* blocked_until lies in the future when the step ends, and the step does not
\* issue the next request.
C27_TransientRetry ==
    /\ [](\A t \in Answered :
             glog[t].last \in {"429", "5xx"} =>
                 IF pc[t] = "retry_sleep"
                 THEN mi[t] = glog[t].model /\ attempt[t] = glog[t].att
                 ELSE IF glog[t].att < cfg.max_attempts_per_model
                 THEN mi[t] = glog[t].model /\ attempt[t] = glog[t].att + 1
                 ELSE mi[t] > glog[t].model /\ attempt[t] = 1)
    /\ [][\A t \in Tasks : Responds(t, {"429", "5xx"}) => disabled' = disabled]_vars
    /\ [][\A t \in Tasks :
              (Responds(t, {"429"}) /\ cfg.enabled) =>
                  /\ blocked_until' > now
                  /\ rl_floor' > now
                  /\ pc'[t] # "call"
                  /\ bcalled' = bcalled]_vars

\* a rate-limited request is waiting for the slot of its next attempt on the
\* same model, which is not disabled, behind the block the response set
C27_Witness ==
    \E t \in Answered :
        /\ glog[t].last = "429"
        /\ pc[t] = "sleep"
        /\ mi[t] = glog[t].model
        /\ attempt[t] = glog[t].att + 1
        /\ cfg.models[mi[t]] \notin disabled
        /\ blocked_until > now


\* ------------------------------------------------------------------------
\* The router and the operations of the client
\* ------------------------------------------------------------------------

\* the operations class GroqClient defines
GroqClient == {"close", "list_models", "chat"}

\* what "async def chat(self, model, messages, params) -> str" returns
chat_returns == {"text"}

\* "txt, headers = await self.groq.chat_raw(model=..., messages=..., params=...)":
\* the operation generate calls on the client, and what it takes from the result
generate_calls == "chat_raw"
generate_unpacks == {"text", "headers"}

\* C28: when the request of a generate call succeeds, the headers of the
\* response go to on_success_headers and generate returns the text with the
\* model that answered; and the request a task has at the client is made
\* through an operation the client has, whose result holds the text and the
\* headers generate takes from it, and which is the client's chat operation.
C28_ChatSuppliesHeaders ==
    /\ [][\A t \in Tasks :
              parts'[t] = parts[t] + 1 =>
                  /\ \E hdrs \in chat_raw_headers, j \in Jitter :
                        blocked_until' = on_success_headers(blocked_until, hdrs, j)
                  /\ IF gi'[t] = gi[t]
                     THEN /\ last_gen'.result = mi[t]
                          /\ manifest'[t].model = cfg.models[mi[t]]
                     ELSE Len(partial_docs'[t]) = Min(parts'[t], Len(Chunks(t)))]_vars
    /\ [](\A t \in Tasks :
             pc[t] = "call" =>
                 /\ generate_calls \in GroqClient
                 /\ generate_unpacks \subseteq chat_returns)


\* the step in which the request of an attempt of task t goes to the client
IssuesRequest(t) ==
    /\ pc'[t] = "call"
    /\ pc[t] # "call" \/ glog'[t] # glog[t] \/ gi'[t] # gi[t]

\* C29: a request goes to the client only in the step in which wait_for_slot
\* returns to the task that issues it, for a first attempt and for a retry
\* alike: that return is the last one of the limiter, with the limiter enabled
\* the limiter was free (neither timestamp in the future) and the step
\* reserved the next slot, and the parameters of the request are the ones
\* computed before the wait.
C29_AcquireBeforeCall ==
    [][\A t \in Tasks :
           IssuesRequest(t) =>
               /\ grants'.since = 0
               /\ grants'.n = Min(grants.n + 1, 2)
               /\ grants'.gap = grants.since
               /\ t \notin caught'
               /\ cfg.enabled =>
                     /\ next_allowed <= now
                     /\ blocked_until' <= now
                     /\ next_allowed' = now + cfg.min_interval_seconds
               /\ pc[t] = "sleep" => eff_tier'[t] = eff_tier[t]
               /\ pc[t] # "sleep" => eff_tier'[t] = eff_params(forced_service_tier)]_vars

\* the request of a second attempt is at the client, after a 5xx answer, the
\* backoff sleep and a slot of its own
C29_Witness ==
    \E t \in Answered :
        /\ cfg.enabled
        /\ pc[t] = "call"
        /\ glog[t].last = "5xx"
        /\ attempt[t] = 2
        /\ grants.n = 2
        /\ grants.since = 0
        /\ next_allowed = now + cfg.min_interval_seconds


\* ------------------------------------------------------------------------
\* The success observation (SpecObserve)
\* ------------------------------------------------------------------------

\* the remaining-tokens header parses to a value at or below the threshold
\* and the reset header parses to a duration
LowAndReset(hdrs) ==
    /\ parse_remaining(hdrs.remaining_tokens).some
    /\ parse_remaining(hdrs.remaining_tokens).val <= cfg.min_remaining_tokens
    /\ parse_duration_seconds(hdrs.reset_tokens).some

\* the step is a call of on_success_headers
Observes == obs'.n # obs.n /\ obs'.kind = "success"

\* C30 as stated: on_success_headers leaves blocked_until at or above now +
\* reset + jitter exactly when the remaining-tokens header parses to a value
\* at or below min_remaining_tokens and the reset header parses to a duration;
\* in every other case it leaves both timestamps as they were.
C30_PushExactlyWhen ==
    [][Observes =>
          /\ next_allowed' = next_allowed
          /\ IF LowAndReset(obs'.hdrs)
             THEN /\ blocked_until' >= blocked_until
                  /\ blocked_until' >= now + parse_duration_seconds(obs'.hdrs.reset_tokens).val
                                           + obs'.jitter
             ELSE blocked_until' = blocked_until]_vars

\* C30: with throttling enabled, on_success_headers raises blocked_until to
\* now + reset + jitter, or leaves it where it already is later than that,
\* exactly when the remaining-tokens header parses to a value at or below
\* min_remaining_tokens and the reset header parses to a duration; in every
\* other case, and always with throttling disabled, it leaves both timestamps
\* as they were.
C30_PushWhenEnabled ==
    [][Observes =>
          /\ next_allowed' = next_allowed
          /\ IF cfg.enabled /\ LowAndReset(obs'.hdrs)
             THEN blocked_until' =
                      Max(blocked_until,
                          now + parse_duration_seconds(obs'.hdrs.reset_tokens).val + obs'.jitter)
             ELSE blocked_until' = blocked_until]_vars

\* the limiter is enabled, the last observation had the remaining tokens at
\* the threshold and a reset of four seconds, and blocked_until was pushed
C30_Witness ==
    /\ cfg.enabled
    /\ obs.kind = "success"
    /\ obs.hdrs = Headers(Absent, Secs(4), Num(1))
    /\ obs.jitter = 1
    /\ blocked_until = now + 5


\* ------------------------------------------------------------------------
\* The rate-limit observation (SpecObserve)
\* ------------------------------------------------------------------------

\* a header value that gives a wait: it parses to a duration above zero
Usable(v) == parse_duration_seconds(v).some /\ parse_duration_seconds(v).val > 0

\* the wait the headers ask for: the larger of the usable durations of
\* retry-after and x-ratelimit-reset-tokens, three seconds when there is none
AskedWait(hdrs) ==
    LET ra == IF Usable(hdrs.retry_after)
              THEN parse_duration_seconds(hdrs.retry_after).val ELSE 0
        rs == IF Usable(hdrs.reset_tokens)
              THEN parse_duration_seconds(hdrs.reset_tokens).val ELSE 0
    IN IF Usable(hdrs.retry_after) \/ Usable(hdrs.reset_tokens) THEN Max(ra, rs) ELSE 3

\* the step is a call of on_rate_limited
ObservesRateLimit == obs'.n # obs.n /\ obs'.kind = "rate_limited"

\* C31 as stated: on_rate_limited leaves blocked_until at or above now + wait
\* + jitter, wait being the larger of the parsed retry-after and reset
\* durations and 3 seconds when neither is usable, and never lowers it.
C31_PushByMaxWait ==
    [][ObservesRateLimit =>
          /\ blocked_until' >= blocked_until
          /\ blocked_until' >= now + AskedWait(obs'.hdrs) + obs'.jitter]_vars

\* C31: with throttling enabled, on_rate_limited raises blocked_until to now
\* + wait + jitter, or leaves it where it already is later than that, wait
\* being the larger of the parsed retry-after and reset durations and 3
\* seconds when neither is usable; with throttling disabled it leaves
\* blocked_until as it was; it never lowers it and never touches next_allowed.
C31_PushByMaxWaitWhenEnabled ==
    [][ObservesRateLimit =>
          /\ next_allowed' = next_allowed
          /\ blocked_until' >= blocked_until
          /\ blocked_until' =
                 IF cfg.enabled
                 THEN Max(blocked_until, now + AskedWait(obs'.hdrs) + obs'.jitter)
                 ELSE blocked_until]_vars

\* the limiter is enabled, the last rate-limit observation had retry-after 2s
\* and a reset of 1s, and blocked_until stands at now + 2s plus the jitter
C31_Witness ==
    /\ cfg.enabled
    /\ obs.kind = "rate_limited"
    /\ obs.hdrs = Headers(Secs(2), Secs(1), Absent)
    /\ obs.jitter = 1
    /\ blocked_until = now + 3


\* ------------------------------------------------------------------------
\* The cache test (Spec)
\* ------------------------------------------------------------------------

\* the three conditions of a skip, on the manifest and the output tree the
\* task of file t finds
SkipConditions(t) ==
    /\ ~force
    /\ manifest[t].has
    /\ manifest[t].sha256 = sha256_text(redact_secrets(content(t)))
    /\ out[t] # "missing"

\* C32: a file task that enters process_one skips its file exactly when force
\* is false, the manifest holds for its key the hash of the current redacted
\* text, and its document exists; otherwise it starts the generation.  So a
\* file whose hash matches but whose document is missing, and a file without
\* a manifest entry, is never skipped and has been regenerated when the run
\* completes.
C32_SkipOnlyWhenAllThree ==
    /\ [][\A t \in Tasks :
              (pc[t] = "queued" /\ pc'[t] \notin {"queued", "cancelled"}) =>
                  IF SkipConditions(t)
                  THEN pc'[t] = "skipped" /\ gi'[t] = 0
                  ELSE pc'[t] # "skipped" /\ gi'[t] = 1]_vars
    /\ [](\A t \in Tasks :
             hist[t] \in {"doc_missing", "fresh"} =>
                 /\ pc[t] # "skipped"
                 /\ run_pc = "ended_ok" => Regenerated(t))

\* a run without force has ended: the file whose document was missing, its
\* hash unchanged, has been regenerated and the other file skipped
C32_Witness ==
    /\ ~force
    /\ hist[1] = "doc_missing"
    /\ PrevFiles(hist)[1].sha256 = sha256_text(redact_secrets(content(1)))
    /\ run_pc = "ended_ok"
    /\ Regenerated(1)
    /\ \A g \in Tasks \ {1} : pc[g] = "skipped"


\* ------------------------------------------------------------------------
\* Import resolution (SpecGraph)
\* ------------------------------------------------------------------------

\* the edges the forward map lists under file f
EdgesOf(f) ==
    IF f \in DOMAIN graph.imports_of
    THEN {graph.imports_of[f][j] : j \in 1..Len(graph.imports_of[f])}
    ELSE {}

\* the raw references in the text of file f
RawsOf(f) == {graph.texts[f][k].raw : k \in 1..Len(graph.texts[f])}

\* the path a raw reference of file f stands for, "" for an external one: an
\* alias prefix is replaced by its path under the parent of the scan root, a
\* reference that starts with "." is taken from the directory of f
RuleBase(f, raw) ==
    IF raw[1] \in DOMAIN ts_path_aliases THEN ts_path_aliases[raw[1]] \o raw[2]
    ELSE IF raw[1] = "./" THEN parent(f) \o raw[2]
    ELSE ""

\* the places, in the fixed order of the candidates, that are scanned files
Matches(base) ==
    {i \in 1..Len(_expand_extensions(base)) : _expand_extensions(base)[i] \in graph_files}

\* C33: import resolution.  Every builder call ends with a graph; a raw
\* reference of a file gives an edge exactly when its path by the rules (alias
\* first, then relative, external otherwise) has a candidate that is a scanned
\* file, and the target of every edge with that raw text is the earliest such
\* candidate in the order literal path, appended extensions, index files; the
\* forward map holds no edge that is not the edge of a raw reference.
C33_FirstCandidate ==
    /\ graph.pc \in {"idle", "input", "built"}
    /\ graph.pc = "built" =>
          \A f \in graph_files :
              /\ \A raw \in RawsOf(f) :
                    LET base == RuleBase(f, raw)
                        here == {e \in EdgesOf(f) : e.raw = raw}
                    IN IF base = "" \/ Matches(base) = {}
                       THEN here = {}
                       ELSE here = {ImportEdge(f,
                                        _expand_extensions(base)[
                                            CHOOSE i \in Matches(base) : \A k \in Matches(base) : i <= k],
                                        raw)}
              /\ \A e \in EdgesOf(f) : e.raw \in RawsOf(f) /\ e.src = f

\* a.ts refers to "./b" and to an external module, b.tsx and b.css are both
\* scanned: the one edge goes to b.tsx, the earlier candidate
C33_Witness ==
    /\ graph.pc = "built"
    /\ {"src/b.css", "src/b.tsx"} \subseteq graph_files
    /\ RawsOf("src/a.ts") = {<<"./", "b">>, <<"", "react">>}
    /\ EdgesOf("src/a.ts") = {ImportEdge("src/a.ts", "src/b.tsx", <<"./", "b">>)}


\* ------------------------------------------------------------------------
\* The timestamps of the limiter (SpecLimiter)
\* ------------------------------------------------------------------------

\* the step is the passing of one second and no call of the limiter: the
\* timestamps, which are kept relative to now, move by that second
SecondPasses ==
    /\ pc' = pc
    /\ ncalls' = ncalls
    /\ next_allowed' = Later(next_allowed)
    /\ blocked_until' = Later(blocked_until)

\* C34: no call of the limiter, in any interleaving of wait_for_slot,
\* on_success_headers and on_rate_limited of concurrent tasks, lowers
\* next_allowed or blocked_until; in particular an observation that asks for
\* a shorter wait leaves a longer block as it is.
C34_TimestampsMonotonic ==
    [][SecondPasses \/ (next_allowed' >= next_allowed /\ blocked_until' >= blocked_until)]_vars

\* one task has its request at the backend and another sleeps in
\* wait_for_slot, behind a block that lies beyond the reserved slot
C34_Witness ==
    /\ cfg.enabled
    /\ grants.n >= 1
    /\ now < next_allowed
    /\ next_allowed < blocked_until
    /\ \E t \in Tasks : pc[t] = "sleep"
    /\ \E t \in Tasks : pc[t] = "call"


\* ------------------------------------------------------------------------
\* The entries a run leaves alone (SpecFilter)
\* ------------------------------------------------------------------------

\* the manifest.json of the state directory holds a complete manifest in
\* which the entry of file t is the one the previous run left
SavedUnchanged(t) ==
    /\ disk.json.state = "complete"
    /\ disk.json.files[t] = PrevFiles(hist)[t]

\* C35: in a run without reset the entry of a file that is not a work item
\* (outside only_rel_paths, or gone from the source tree), of a file that was
\* skipped, and of any file the run has not regenerated, is in the manifest
\* as the previous run left it, at every moment of the run; and manifest.json
\* holds it unchanged whenever it is complete, so also after the save.
C35_OtherEntriesKept ==
    \A t \in Tasks :
        pc[t] # "done" =>
            /\ manifest[t] = PrevFiles(hist)[t]
            /\ disk.json.state = "complete" => SavedUnchanged(t)
            /\ run_pc \in {"write_index", "closing_ok", "ended_ok"} => SavedUnchanged(t)

\* a run has regenerated one file, skipped none, and saved: the entry of a
\* file that is gone from the tree is in manifest.json as it was
C35_Witness ==
    \E t \in Tasks, g \in Tasks :
        /\ pc[t] = "no_item"
        /\ hist[t] = "removed"
        /\ pc[g] = "done"
        /\ run_pc = "ended_ok"
        /\ saves = 1
        /\ disk.json.files[g].updated_at = "new"
        /\ PrevFiles(hist)[t].has
        /\ SavedUnchanged(t)


\* ------------------------------------------------------------------------
\* Progress of the waiters (SpecLimiterLive)
\* ------------------------------------------------------------------------

\* C36: with throttling enabled and the calls of the limiter bounded (so the
\* observations are finitely many), a task that sleeps in wait_for_slot
\* returns from it in the end, whatever the other tasks do; and the sleep of
\* one task keeps no other task out: while a task sleeps, any idle task that
\* has a call left can make its slot check.
C36_WaitersReturn ==
    /\ \A t \in Tasks : (cfg.enabled /\ pc[t] = "sleep") ~> (pc[t] = "call")
    /\ [](\A t \in Tasks, u \in Tasks :
             (pc[u] = "sleep" /\ pc[t] = "idle" /\ ncalls < MaxCalls) => ENABLED LAcquire(t))

\* two tasks sleep in wait_for_slot at once, both with time left to sleep,
\* after a slot was granted
C36_Witness ==
    /\ cfg.enabled
    /\ grants.n >= 1
    /\ \E t \in Tasks, u \in Tasks :
          /\ t # u
          /\ pc[t] = "sleep" /\ wake[t] > now
          /\ pc[u] = "sleep" /\ wake[u] > now


\* ------------------------------------------------------------------------
\* Termination of a run (SpecLive)
\* ------------------------------------------------------------------------

\* generate_docs has returned or raised, or the process has died
RunOver == run_pc \in {"ended_ok", "ended_err", "raised", "crashed_in_save", "crashed_after_save"}

\* the files the run has a work item for
WorkFiles == {t \in Tasks : pc[t] # "no_item"}

\* file tasks that hold a permit of the semaphore
Holders == {t \in Tasks : pc[t] \in {"call", "sleep", "retry_sleep"}}

\* every run ends; until the run ends on a failure, a permit is held by
\* exactly the tasks inside process_one, so the skip, the success and the
\* failure of a task give it back; a task that waits for a permit while the
\* tasks run gets past the semaphore or is cancelled
RunEnds ==
    /\ <>RunOver
    /\ [](run_pc # "ended_err" => sem + Cardinality(Holders) = cfg.max_concurrency)
    /\ \A t \in Tasks : (pc[t] = "queued" /\ TaskRunning) ~> (pc[t] # "queued")

\* C37 as stated: if the backend answers every request the run ends, with
\* every work item skipped, completed or failed, and every permit given back.
C37_AllItemsEnd ==
    /\ RunEnds
    /\ [](run_pc \in {"ended_ok", "ended_err"} =>
             \A t \in WorkFiles : pc[t] \in {"skipped", "done", "failed"})

\* C37: if the backend answers every request and max_concurrency is at least
\* 1, the run ends and every permit is given back on every exit of a file
\* task; in a run that ends well every work item is skipped or completed; in
\* a run that ends on the failure of a work item every other item is
\* skipped, completed, failed, or cancelled where it stood when the run ended.
C37_ItemsEndOrCancelled ==
    /\ RunEnds
    /\ [](run_pc = "ended_ok" => \A t \in WorkFiles : pc[t] \in {"skipped", "done"})
    /\ [](run_pc = "ended_err" =>
             /\ \E t \in Tasks : pc[t] = "failed"
             /\ \A t \in WorkFiles : pc[t] \in {"skipped", "done", "failed", "cancelled"})

\* with one permit, a run has ended on the failure of one file task after
\* another had completed and given its permit back
C37_Witness ==
    /\ cfg.max_concurrency = 1
    /\ run_pc = "ended_err"
    /\ sem = 1
    /\ \E t \in Tasks, u \in Tasks : pc[t] = "done" /\ pc[u] = "failed"

====
